---------------------------- MODULE Spec2Model ----------------------------
(***************************************************************************)
(* Threshold-backtest: the Backtester engine (legend detection, entry      *)
(* resolution, trailing-stop simulation, trade accounting).                *)
(*                                                                         *)
(* Prices are JavaScript numbers in the source.  They are modelled as      *)
(* exact rationals [n |-> numerator, d |-> denominator > 0] in lowest      *)
(* terms, so every comparison the code makes is decided on exact values.   *)
(* Candle indices are 0-based as in the source.                            *)
(***************************************************************************)
EXTENDS Integers, Sequences, FiniteSets, TLC

(***************************************************************************)
(* Bounds of the model                                                     *)
(***************************************************************************)
\* runConfig.strategy.lookbackPeriod.candles (N)
Lookback == 2
\* runConfig.trade.maxLookForwardCandles (H)
MaxLookForwardCandles == 3
\* runConfig.trade.trailingStop.maxTriggerLevels (M)
MaxTriggerLevels == 2
\* number of candles of the store that findMatchingCandles examines
TailLen == 5
\* runConfig.strategy.lookbackPeriod.threshold (k)
ThresholdMultiplier == 1
\* largest config.backtestMode.batchProcessing.concurrencyLimit examined
ConcurrencyLimit == 2
\* number of months from config.dataFetch.startDate to endDate
MonthsToFetch == 2
\* bits of the significand of the numbers the two ladders are rounded to
\* (a JavaScript number has 53)
MantissaBits == 8

(***************************************************************************)
(* Program constants                                                       *)
(***************************************************************************)
\* findMatchingCandles: lookbackPeriod = candles + 10
WarmUp == 10
\* runConfig.account.initialBalance
InitialBalance == 1000
\* config.account.positionSizePercent
PositionSizePercent == 100
\* length of one candle interval in milliseconds (1m klines)
CandleMs == 60000
\* legacy calculateTriggerLevels: for (let i = 1; i <= 20; i++)
LegacyLevels == 20

(***************************************************************************)
(* Exact rational arithmetic                                               *)
(***************************************************************************)
Abs(x) == IF x < 0 THEN 0 - x ELSE x

RECURSIVE GCD(_, _)
GCD(a, b) == IF b = 0 THEN a ELSE GCD(b, a % b)

\* a fraction in lowest terms
Norm(n, d) ==
  LET g == GCD(Abs(n), d)
  IN  IF n = 0 THEN [n |-> 0, d |-> 1] ELSE [n |-> n \div g, d |-> d \div g]

R(x) == [n |-> x, d |-> 1]

\* in the operators below each operand is evaluated once
RAdd(a, b) ==
  CHOOSE r \in { LET g == GCD(v[1].d, v[2].d)
                 IN  Norm(v[1].n * (v[2].d \div g) + v[2].n * (v[1].d \div g),
                          (v[1].d \div g) * v[2].d) :
                 v \in { << a, b >> } } : TRUE

RNeg(a) == CHOOSE r \in { [n |-> 0 - v.n, d |-> v.d] : v \in {a} } : TRUE
RSub(a, b) == RAdd(a, RNeg(b))
RMul(a, b) ==
  CHOOSE r \in { Norm(v[1].n * v[2].n, v[1].d * v[2].d) : v \in { << a, b >> } } : TRUE
\* division by a non-zero rational
RDiv(a, b) ==
  CHOOSE r \in { IF v[2].n > 0 THEN Norm(v[1].n * v[2].d, v[1].d * v[2].n)
                 ELSE Norm((0 - v[1].n) * v[2].d, v[1].d * (0 - v[2].n)) :
                 v \in { << a, b >> } } : TRUE
RAbs(a) == CHOOSE r \in { [n |-> Abs(v.n), d |-> v.d] : v \in {a} } : TRUE
RLe(a, b) == \A v \in { << a, b >> } : v[1].n * v[2].d <= v[2].n * v[1].d
RLt(a, b) == \A v \in { << a, b >> } : v[1].n * v[2].d < v[2].n * v[1].d
RGe(a, b) == RLe(b, a)
RGt(a, b) == RLt(b, a)

\* Number.prototype.toFixed(2) followed by parseFloat: the value rounded to
\* cents, ties away from zero
ToFixed2(a) ==
  CHOOSE r \in { LET m == (Abs(v.n) * 200 + v.d) \div (2 * v.d)
                 IN  Norm(IF v.n < 0 THEN 0 - m ELSE m, 100) : v \in {a} } : TRUE

\* moment(openTime).format('YYYY-MM-DD HH:mm:ss'): second resolution
FormatTime(ms) == ms \div 1000

(***************************************************************************)
(* The candle store                                                        *)
(***************************************************************************)
Candle(o, h, l, c) == [open |-> o, high |-> h, low |-> l, close |-> c]

\* a stored candle: the shape plus its openTime
Stored(shape, t) ==
  [ openTime |-> t, open |-> shape.open, high |-> shape.high,
    low |-> shape.low, close |-> shape.close ]

\* the last candle of the first lookback window: a 10% move or a flat one;
\* the candles before it are flat
WindowShapes == { Candle(100, 110, 100, 110), Candle(100, 100, 100, 100) }

\* candles of the examined tail
TailShapes ==
  { Candle(100, 110, 100, 110),    \* a 10% up move
    Candle(110, 150,  75, 110),    \* wide range, no body
    Candle(110, 125, 110, 110),    \* spike up
    Candle(100, 100,  75, 100),    \* spike down
    Candle(110, 112, 110, 110) }   \* quiet

LookbackPeriod == Lookback + WarmUp
\* length of a store that leaves TailLen candles to examine
FullLength == LookbackPeriod + TailLen
Indices == 0 .. (FullLength - 1)

OpenTime(idx) == idx * CandleMs

(***************************************************************************)
(* State                                                                   *)
(***************************************************************************)
VARIABLES
  candles,             \* this.candles, indexed 0 .. NumCandles-1
  initialBalance,      \* runConfig.account.initialBalance
  positionSizePercent, \* config.account.positionSizePercent
  maxTriggerLevels,    \* runConfig.trade.trailingStop.maxTriggerLevels
  matchingCandles,     \* this.matchingCandles: the recorded trades
  currentBalance,      \* this.currentBalance
  balanceHistory,      \* this.balanceHistory
  pc,                  \* position of the run
  currentIndex,        \* findMatchingCandles: i
  legendCandle,        \* processCandle: legendCandle (+ dynamicThreshold, currentDiff)
  threshold_crossed,   \* processCandle: result of checkThresholdCrossing
  look,                \* loop counter i of checkThresholdCrossing / checkTradeOutcome
  entry,               \* checkTradeOutcome: entry (+ startIndex)
  triggerLevels,       \* checkTradeOutcome: triggerLevels, indexed 0 .. M
  currentStopLoss,     \* checkTradeOutcome: currentStopLoss
  currentTriggerIndex, \* checkTradeOutcome: currentTriggerIndex
  trailingHistory,     \* checkTradeOutcome: trailingHistory
  completedRuns,       \* results of the Backtester instances that ran before
  concurrencyLimit,    \* BatchProcessor: this.concurrencyLimit
  batchPc,             \* BatchProcessor: position of processAll
  queue,               \* downloadAllData / runAllBacktests: queue
  batch,               \* the batch awaited by Promise.all
  downloadTask,        \* position of downloadData, per pair
  backtestTask,        \* position of runBacktest, per pair
  dirs,                \* the directories under ../results that exist
  files,               \* the result files that exist
  completedBacktests,  \* BatchProcessor: this.completedBacktests
  useParallel,         \* BatchProcessor: this.useParallel
  awaiting,            \* the loop of the phase is suspended at its await
  ladderInput,         \* calculateTriggerLevels: entryPrice, side, dynamicThreshold
  legacyLevels,        \* levels returned by the legacy calculateTriggerLevels
  currentLevels,       \* levels returned by the current calculateTriggerLevels
  fetchPc,             \* position of fetchHistoricalData, per DataFetcher
  fileIndex,           \* index of fileName in fileNames, per DataFetcher
  checksum,            \* fetchHistoricalData: checksum of the month at hand
  zipFile,             \* what downloadFile left at zipPath for the month at hand
  unzipped,            \* how unzipFile ended for the month at hand
  firstAvailable,      \* fetchHistoricalData: firstAvailable
  lastAvailable,       \* fetchHistoricalData: lastAvailable
  csvFiles,            \* the months with a file in the csv directory
  attempted,           \* the months whose zip was requested, in order
  dataInfo,            \* updateDataAvailability: dataInfo
  dataFile             \* content of <symbol>_data.json

vars == << candles, initialBalance, positionSizePercent, maxTriggerLevels,
           matchingCandles,
           currentBalance, balanceHistory, pc,
           currentIndex, legendCandle, threshold_crossed, look, entry,
           triggerLevels, currentStopLoss, currentTriggerIndex,
           trailingHistory, completedRuns, concurrencyLimit, batchPc, queue,
           batch, downloadTask, backtestTask, dirs, files,
           completedBacktests, useParallel, awaiting,
           ladderInput, legacyLevels, currentLevels,
           fetchPc, fileIndex, checksum, zipFile, unzipped, firstAvailable,
           lastAvailable, csvFiles, attempted, dataInfo, dataFile >>

\* this.candles.length
NumCandles == Cardinality(DOMAIN candles)

\* what a run reads and never writes
inputs == << candles, initialBalance, positionSizePercent, maxTriggerLevels >>
account == << matchingCandles, currentBalance, balanceHistory >>
simLocals == << entry, triggerLevels, currentStopLoss, currentTriggerIndex,
                trailingHistory >>

\* state of the batch processor and of the file system it shares with its runs
batchVars == << concurrencyLimit, batchPc, queue, batch, downloadTask,
                backtestTask, dirs, files, completedBacktests, useParallel,
                awaiting >>
\* the two ladders computed for one entry
ladderVars == << ladderInput, legacyLevels, currentLevels >>
\* state of the DataFetcher instances and of the kline directory
fetchVars == << fetchPc, fileIndex, checksum, zipFile, unzipped,
                firstAvailable, lastAvailable, csvFiles, attempted, dataInfo,
                dataFile >>
\* what lies outside the Backtester instance that runs
outside == << completedRuns, batchVars, ladderVars, fetchVars >>

None == [kind |-> "none"]

(***************************************************************************)
(* Threshold Calculator and Legend Detector (processCandle)                *)
(***************************************************************************)
\* (Math.abs(close - open) / open) * 100
Movement(c) == RMul(RDiv(RAbs(R(c.close - c.open)), R(c.open)), R(100))

\* variant: the slice(-N) is lost and the mean is taken over the whole of
\* lookbackCandles
PreviousIndices_WholeSlice(idx) == (idx - LookbackPeriod) .. (idx - 1)

\* indices of lookbackCandles.slice(-N), lookbackCandles being
\* candles.slice(i - lookbackPeriod, i); slice(-0) is the whole array
PreviousIndices(idx) ==
  IF Lookback = 0 THEN (idx - LookbackPeriod) .. (idx - 1)
                  ELSE (idx - Lookback) .. (idx - 1)

RECURSIVE SumMovement(_, _)
SumMovement(cs, S) ==
  IF S = {} THEN R(0)
  ELSE LET x == CHOOSE y \in S : TRUE
       IN  RAdd(Movement(cs[x]), SumMovement(cs, S \ {x}))

\* math.mean(previousDiffs)
AverageDiff(cs, idx) ==
  RDiv(SumMovement(cs, PreviousIndices(idx)), R(Cardinality(PreviousIndices(idx))))

\* lookbackPeriod.threshold * averageDiff, for a multiplier k
ThresholdUnder(k, cs, idx) == RMul(R(k), AverageDiff(cs, idx))

DynamicThreshold(cs, idx) == ThresholdUnder(ThresholdMultiplier, cs, idx)

\* variant: the comparison is reversed
LegendUnder_Below(k, cs, idx) == RLe(Movement(cs[idx]), ThresholdUnder(k, cs, idx))

\* currentDiff >= dynamicThreshold, for a multiplier k
LegendUnder(k, cs, idx) == RGe(Movement(cs[idx]), ThresholdUnder(k, cs, idx))

IsLegend(cs, idx) == LegendUnder(ThresholdMultiplier, cs, idx)

MakeLegendCandle(cs, idx) ==
  LET dyn == DynamicThreshold(cs, idx)
      thresholdValue == RMul(R(cs[idx].close), RDiv(dyn, R(100)))
  IN  [ kind |-> "legend",
        index |-> idx,
        timestamp |-> FormatTime(OpenTime(idx)),
        close |-> cs[idx].close,
        upward_movementThreshold |-> RAdd(R(cs[idx].close), thresholdValue),
        downward_movementThreshold |-> RSub(R(cs[idx].close), thresholdValue),
        dynamicThreshold |-> dyn,
        currentDiff |-> Movement(cs[idx]),
        averageDiff |-> AverageDiff(cs, idx) ]

(***************************************************************************)
(* Trigger ladder (calculateTriggerLevels)                                 *)
(***************************************************************************)
\* variant: each level is a percentage step from the previous trigger
\* instead of a fixed step from the entry price
RECURSIVE TriggerLevel_Compounding(_, _, _, _)
TriggerLevel_Compounding(entryPrice, side, thresholdValue, lv) ==
  IF lv = 0
  THEN [ trigger |-> entryPrice,
         stopLoss |-> IF side = "LONG" THEN RSub(entryPrice, thresholdValue)
                                       ELSE RAdd(entryPrice, thresholdValue) ]
  ELSE LET prev == TriggerLevel_Compounding(entryPrice, side, thresholdValue, lv - 1)
           step == IF entryPrice.n = 0 THEN R(0)
                   ELSE RMul(prev.trigger, RDiv(thresholdValue, entryPrice))
       IN  IF side = "LONG"
           THEN [ trigger |-> RAdd(prev.trigger, step), stopLoss |-> prev.trigger ]
           ELSE [ trigger |-> RSub(prev.trigger, step), stopLoss |-> prev.trigger ]

\* variant: the initial stop is taken below the entry price for both sides
TriggerLevel_SameSign(entryPrice, side, thresholdValue, lv) ==
  IF lv = 0
  THEN [ trigger |-> entryPrice, stopLoss |-> RSub(entryPrice, thresholdValue) ]
  ELSE IF side = "LONG"
       THEN LET trigger == RAdd(entryPrice, RMul(thresholdValue, R(lv)))
            IN  [ trigger |-> trigger, stopLoss |-> RSub(trigger, thresholdValue) ]
       ELSE LET trigger == RSub(entryPrice, RMul(thresholdValue, R(lv)))
            IN  [ trigger |-> trigger, stopLoss |-> RAdd(trigger, thresholdValue) ]

TriggerLevel(entryPrice, side, thresholdValue, lv) ==
  IF lv = 0
  THEN [ trigger |-> entryPrice,
         stopLoss |-> IF side = "LONG" THEN RSub(entryPrice, thresholdValue)
                                       ELSE RAdd(entryPrice, thresholdValue) ]
  ELSE IF side = "LONG"
       THEN LET trigger == RAdd(entryPrice, RMul(thresholdValue, R(lv)))
            IN  [ trigger |-> trigger, stopLoss |-> RSub(trigger, thresholdValue) ]
       ELSE LET trigger == RSub(entryPrice, RMul(thresholdValue, R(lv)))
            IN  [ trigger |-> trigger, stopLoss |-> RAdd(trigger, thresholdValue) ]

\* variant: the loop that builds the ladder runs one level too far
calculateTriggerLevels_OneMore(entryPrice, side, dynamicThreshold) ==
  LET thresholdValue == RMul(entryPrice, RDiv(dynamicThreshold, R(100)))
  IN  [ lv \in 0 .. (maxTriggerLevels + 1) |->
          TriggerLevel(entryPrice, side, thresholdValue, lv) ]

\* level 0 (the entry) and one level per i = 1 .. maxTriggerLevels
calculateTriggerLevels(entryPrice, side, dynamicThreshold) ==
  LET thresholdValue == RMul(entryPrice, RDiv(dynamicThreshold, R(100)))
  IN  [ lv \in 0 .. maxTriggerLevels |->
          TriggerLevel(entryPrice, side, thresholdValue, lv) ]

(***************************************************************************)
(* Trade Accountant helpers                                                *)
(***************************************************************************)
\* variant: the side is ignored, every trade is priced as a LONG
calculatePnL_LongOnly(entryPrice, exitPrice, side) ==
  LET pnl == RSub(exitPrice, entryPrice)
  IN  [ pnl |-> pnl,
        pnl_percentage |-> IF entryPrice.n = 0 THEN R(0)
                           ELSE RMul(RDiv(pnl, entryPrice), R(100)) ]

\* calculatePnL: pnl = side === 'LONG' ? exit - entry : entry - exit
calculatePnL(entryPrice, exitPrice, side) ==
  LET pnl == IF side = "LONG" THEN RSub(exitPrice, entryPrice)
                              ELSE RSub(entryPrice, exitPrice)
  IN  [ pnl |-> pnl,
        pnl_percentage |-> IF entryPrice.n = 0 THEN R(0)
                           ELSE RMul(RDiv(pnl, entryPrice), R(100)) ]

\* calculateTradeSize: (currentBalance * positionSizePercent / 100) / entryPrice
calculateTradeSize(balance, entryPrice) ==
  IF entryPrice.n = 0 THEN R(0)
  ELSE RDiv(RDiv(RMul(balance, R(positionSizePercent)), R(100)), entryPrice)


(***************************************************************************)
(* Comparators of the entry resolver and the trailing-stop simulator       *)
(***************************************************************************)
\* candle.high >= legendCandle.upward_movementThreshold
CrossesUp(c, legend) == RGe(R(c.high), legend.upward_movementThreshold)
\* candle.low <= legendCandle.downward_movementThreshold
CrossesDown(c, legend) == RLe(R(c.low), legend.downward_movementThreshold)

\* trigger test of checkTradeOutcome's while loop
TriggerCrossed(side, c, level) ==
  \/ side = "LONG"  /\ RGe(R(c.high), level.trigger)
  \/ side = "SHORT" /\ RLe(R(c.low), level.trigger)

\* variant: the trigger test placed before the stop test, so that a candle
\* reaching the next trigger is not stopped
StopHit_TriggerFirst(side, c, stop) ==
  /\ \/ side = "LONG"  /\ RLe(R(c.low), stop)
     \/ side = "SHORT" /\ RGe(R(c.high), stop)
  /\ ~(/\ currentTriggerIndex <= MaxTriggerLevels
       /\ TriggerCrossed(side, c, triggerLevels[currentTriggerIndex]))

\* stop-loss hit test of checkTradeOutcome
StopHit(side, c, stop) ==
  \/ side = "LONG"  /\ RLe(R(c.low), stop)
  \/ side = "SHORT" /\ RGe(R(c.high), stop)

(***************************************************************************)
(* Initial state: a loaded candle store, a fresh Backtester                *)
(***************************************************************************)
FlatCandle == Candle(100, 100, 100, 100)

\* no batch is processed: the run was started by runSingleBacktest
BatchIdle ==
  /\ concurrencyLimit = 1
  /\ batchPc = "single"
  /\ queue = << >>
  /\ batch = {}
  /\ downloadTask = << >>
  /\ backtestTask = << >>
  /\ dirs = {}
  /\ files = {}
  /\ completedBacktests = {}
  /\ useParallel = FALSE
  /\ awaiting = FALSE

\* no ladder is being compared
LadderIdle ==
  /\ ladderInput = None
  /\ legacyLevels = << >>
  /\ currentLevels = << >>

\* no DataFetcher runs: the data is on disk already
FetchIdle ==
  /\ fetchPc = << >>
  /\ fileIndex = << >>
  /\ checksum = << >>
  /\ zipFile = << >>
  /\ unzipped = << >>
  /\ firstAvailable = << >>
  /\ lastAvailable = << >>
  /\ csvFiles = << >>
  /\ attempted = << >>
  /\ dataInfo = << >>
  /\ dataFile = None

\* a store of full length: flat candles, then the last candle of the first
\* window, then the tail
FullStore(w, t) ==
  [ x \in Indices |->
      Stored(IF x < LookbackPeriod - 1 THEN FlatCandle
             ELSE IF x = LookbackPeriod - 1 THEN w ELSE t[x],
             OpenTime(x)) ]

\* a store with n candles, n = 0 for no candle at all
ShortStore(n) == [ x \in 0 .. (n - 1) |-> Stored(FlatCandle, OpenTime(x)) ]

Init ==
  /\ \/ \E w \in WindowShapes,
           t \in [LookbackPeriod .. (FullLength - 1) -> TailShapes] :
          candles = FullStore(w, t)
     \/ \E n \in 0 .. LookbackPeriod : candles = ShortStore(n)
  /\ initialBalance = InitialBalance
  /\ positionSizePercent = PositionSizePercent
  /\ maxTriggerLevels = MaxTriggerLevels
  /\ matchingCandles = << >>
  /\ currentBalance = R(initialBalance)
  /\ balanceHistory = << >>
  /\ pc = "scan"
  /\ currentIndex = LookbackPeriod
  /\ legendCandle = None
  /\ threshold_crossed = None
  /\ look = 0
  /\ entry = None
  /\ triggerLevels = << >>
  /\ currentStopLoss = R(0)
  /\ currentTriggerIndex = 0
  /\ trailingHistory = << >>
  /\ completedRuns = << >>
  /\ BatchIdle
  /\ LadderIdle
  /\ FetchIdle

(***************************************************************************)
(* findMatchingCandles / processCandle: legend detection                   *)
(***************************************************************************)
\* variant: the scan resumes after the candles that processCandle looked at
ReturnToScan_PastWindow ==
  /\ pc' = "scan"
  /\ currentIndex' = currentIndex + 1 + look
  /\ look' = 0

\* processCandle returns to the loop of findMatchingCandles: i++
ReturnToScan ==
  /\ pc' = "scan"
  /\ currentIndex' = currentIndex + 1
  /\ look' = 0

\* variant: lookbackCandles is cut out of the store with splice instead of
\* being copied with slice
ProcessCandleNoLegend_Splice ==
  /\ pc = "scan"
  /\ currentIndex < NumCandles
  /\ ~IsLegend(candles, currentIndex)
  /\ ReturnToScan
  /\ legendCandle' = None
  /\ threshold_crossed' = None
  /\ candles' = [ x \in 0 .. (NumCandles - LookbackPeriod - 1) |->
                    IF x < currentIndex - LookbackPeriod
                    THEN candles[x] ELSE candles[x + LookbackPeriod] ]
  /\ UNCHANGED << outside, initialBalance, positionSizePercent,
                  maxTriggerLevels, account, simLocals >>

\* the candle at currentIndex is not a legend
ProcessCandleNoLegend ==
  /\ pc = "scan"
  /\ currentIndex < NumCandles
  /\ ~IsLegend(candles, currentIndex)
  /\ ReturnToScan
  /\ legendCandle' = None
  /\ threshold_crossed' = None
  /\ UNCHANGED << outside, inputs, account, simLocals >>

\* variant: the loop of checkThresholdCrossing starts at offset 0, the
\* legend candle itself
ProcessCandleLegend_FromZero ==
  /\ pc = "scan"
  /\ currentIndex < NumCandles
  /\ IsLegend(candles, currentIndex)
  /\ legendCandle' = MakeLegendCandle(candles, currentIndex)
  /\ threshold_crossed' = None
  /\ pc' = "cross"
  /\ look' = 0
  /\ UNCHANGED << outside, inputs, account, currentIndex, simLocals >>

\* the candle at currentIndex is a legend: checkThresholdCrossing is called
ProcessCandleLegend ==
  /\ pc = "scan"
  /\ currentIndex < NumCandles
  /\ IsLegend(candles, currentIndex)
  /\ legendCandle' = MakeLegendCandle(candles, currentIndex)
  /\ threshold_crossed' = None
  /\ pc' = "cross"
  /\ look' = 1
  /\ UNCHANGED << outside, inputs, account, currentIndex, simLocals >>

(***************************************************************************)
(* checkThresholdCrossing: one iteration of its loop per step              *)
(***************************************************************************)
\* variant: the horizon is one candle short
CrossInRange_Short ==
  /\ look < MaxLookForwardCandles
  /\ currentIndex + look < NumCandles

\* variant: only the end of the store stops the loop
CrossInRange_StoreOnly == currentIndex + look < NumCandles

CrossInRange ==
  /\ look <= MaxLookForwardCandles
  /\ currentIndex + look < NumCandles

\* the loop ends without a crossing: direction NONE, processCandle returns
CrossNone ==
  /\ pc = "cross"
  /\ ~CrossInRange
  /\ threshold_crossed' = [ direction |-> "NONE", crossed_at |-> 0,
                            entry_price |-> R(0), candles_until_cross |-> 0 ]
  /\ ReturnToScan
  /\ UNCHANGED << outside, inputs, account, legendCandle, simLocals >>

\* the candle crosses neither level
CrossStep ==
  /\ pc = "cross"
  /\ CrossInRange
  /\ ~CrossesUp(candles[currentIndex + look], legendCandle)
  /\ ~CrossesDown(candles[currentIndex + look], legendCandle)
  /\ look' = look + 1
  /\ UNCHANGED << outside, inputs, account, pc, currentIndex, legendCandle,
                  threshold_crossed, simLocals >>

\* variant: the downward level is tested first
Crossing_ShortFirst(c, legend, offset) ==
  IF CrossesDown(c, legend)
  THEN [ direction |-> "SHORT", crossed_at |-> FormatTime(c.openTime),
         entry_price |-> legend.downward_movementThreshold,
         candles_until_cross |-> offset ]
  ELSE [ direction |-> "LONG", crossed_at |-> FormatTime(c.openTime),
         entry_price |-> legend.upward_movementThreshold,
         candles_until_cross |-> offset ]

\* the result of checkThresholdCrossing at a crossing candle
Crossing(c, legend, offset) ==
  IF CrossesUp(c, legend)
  THEN [ direction |-> "LONG", crossed_at |-> FormatTime(c.openTime),
         entry_price |-> legend.upward_movementThreshold,
         candles_until_cross |-> offset ]
  ELSE [ direction |-> "SHORT", crossed_at |-> FormatTime(c.openTime),
         entry_price |-> legend.downward_movementThreshold,
         candles_until_cross |-> offset ]

\* variant: the loop of checkTradeOutcome starts at offset 0, the crossing
\* candle itself
CrossEntry_FromEntry ==
  /\ pc = "cross"
  /\ CrossInRange
  /\ LET c == candles[currentIndex + look]
         tc == Crossing(c, legendCandle, look)
         startIndex == currentIndex + tc.candles_until_cross
         levels == calculateTriggerLevels(tc.entry_price, tc.direction,
                                          legendCandle.dynamicThreshold)
     IN  /\ ~(~CrossesUp(c, legendCandle) /\ ~CrossesDown(c, legendCandle))
         /\ threshold_crossed' = tc
         /\ entry' = [ kind |-> "entry",
                       startIndex |-> startIndex,
                       price |-> tc.entry_price,
                       side |-> tc.direction,
                       size |-> calculateTradeSize(currentBalance, tc.entry_price),
                       sizedBalance |-> currentBalance,
                       dynamicThreshold |-> legendCandle.dynamicThreshold ]
         /\ triggerLevels' = levels
         /\ currentStopLoss' = levels[0].stopLoss
         /\ currentTriggerIndex' = 1
         /\ trailingHistory' =
              << [ price |-> levels[0].stopLoss,
                   time |-> FormatTime(candles[startIndex].openTime),
                   type |-> "INITIAL",
                   market_price |-> tc.entry_price,
                   profit_at_update |-> R(0) ] >>
  /\ pc' = "stop"
  /\ look' = 0
  /\ UNCHANGED << outside, inputs, account, currentIndex, legendCandle >>

\* variant: when a candle crosses both levels the side entered is not fixed
\* by the order of the two tests
CrossEntry_EitherSide ==
  /\ pc = "cross"
  /\ CrossInRange
  /\ \E first \in {"LONG", "SHORT"} :
     LET c == candles[currentIndex + look]
         tc == IF first = "LONG" THEN Crossing(c, legendCandle, look)
               ELSE Crossing_ShortFirst(c, legendCandle, look)
         startIndex == currentIndex + tc.candles_until_cross
         levels == calculateTriggerLevels(tc.entry_price, tc.direction,
                                          legendCandle.dynamicThreshold)
     IN  /\ ~(~CrossesUp(c, legendCandle) /\ ~CrossesDown(c, legendCandle))
         /\ threshold_crossed' = tc
         /\ entry' = [ kind |-> "entry",
                       startIndex |-> startIndex,
                       price |-> tc.entry_price,
                       side |-> tc.direction,
                       size |-> calculateTradeSize(currentBalance, tc.entry_price),
                       sizedBalance |-> currentBalance,
                       dynamicThreshold |-> legendCandle.dynamicThreshold ]
         /\ triggerLevels' = levels
         /\ currentStopLoss' = levels[0].stopLoss
         /\ currentTriggerIndex' = 1
         /\ trailingHistory' =
              << [ price |-> levels[0].stopLoss,
                   time |-> FormatTime(candles[startIndex].openTime),
                   type |-> "INITIAL",
                   market_price |-> tc.entry_price,
                   profit_at_update |-> R(0) ] >>
  /\ pc' = "stop"
  /\ look' = 1
  /\ UNCHANGED << outside, inputs, account, currentIndex, legendCandle >>

\* a crossing is found; processCandle sizes the trade and checkTradeOutcome
\* builds the ladder and the INITIAL event
CrossEntry ==
  /\ pc = "cross"
  /\ CrossInRange
  /\ LET c == candles[currentIndex + look]
         tc == Crossing(c, legendCandle, look)
         startIndex == currentIndex + tc.candles_until_cross
         levels == calculateTriggerLevels(tc.entry_price, tc.direction,
                                          legendCandle.dynamicThreshold)
     IN  /\ ~(~CrossesUp(c, legendCandle) /\ ~CrossesDown(c, legendCandle))
         /\ threshold_crossed' = tc
         /\ entry' = [ kind |-> "entry",
                       startIndex |-> startIndex,
                       price |-> tc.entry_price,
                       side |-> tc.direction,
                       size |-> calculateTradeSize(currentBalance, tc.entry_price),
                       sizedBalance |-> currentBalance,
                       dynamicThreshold |-> legendCandle.dynamicThreshold ]
         /\ triggerLevels' = levels
         /\ currentStopLoss' = levels[0].stopLoss
         /\ currentTriggerIndex' = 1
         /\ trailingHistory' =
              << [ price |-> levels[0].stopLoss,
                   time |-> FormatTime(candles[startIndex].openTime),
                   type |-> "INITIAL",
                   market_price |-> tc.entry_price,
                   profit_at_update |-> R(0) ] >>
  /\ pc' = "stop"
  /\ look' = 1
  /\ UNCHANGED << outside, inputs, account, currentIndex, legendCandle >>

(***************************************************************************)
(* checkTradeOutcome: stop check, then the trigger loop, per candle        *)
(***************************************************************************)
SimInRange ==
  /\ look <= MaxLookForwardCandles
  /\ entry.startIndex + look < NumCandles

\* the candle under simulation
SimCandle == candles[entry.startIndex + look]

\* variant: the exit is taken at the candle's close, as a market order
\* filled at the end of the candle would be
createTradeExit_AtClose(c, stopLossPrice, candlesUntilExit, history) ==
  [ price |-> R(c.close),
    time |-> FormatTime(c.openTime),
    type |-> "TRAILING_STOP",
    candles_until_exit |-> candlesUntilExit,
    trailing_stops |->
      Append(history, [ price |-> R(c.close),
                        time |-> FormatTime(c.openTime),
                        type |-> "HIT",
                        market_price |-> R(c.close),
                        profit_at_update |-> R(0) ]) ]

\* createTradeExit: the HIT event is appended and the exit is returned
createTradeExit(c, stopLossPrice, candlesUntilExit, history) ==
  [ price |-> stopLossPrice,
    time |-> FormatTime(c.openTime),
    type |-> "TRAILING_STOP",
    candles_until_exit |-> candlesUntilExit,
    trailing_stops |->
      Append(history, [ price |-> stopLossPrice,
                        time |-> FormatTime(c.openTime),
                        type |-> "HIT",
                        market_price |-> stopLossPrice,
                        profit_at_update |-> R(0) ]) ]

\* the trails of processTradeResult: the events that are neither INITIAL
\* nor HIT, each with the stop before it
Trails(stops) ==
  LET kept == SelectSeq(stops, LAMBDA e : e.type # "INITIAL" /\ e.type # "HIT")
  IN  [ x \in 1 .. Len(kept) |->
          [ trail_number |-> x,
            time |-> kept[x].time,
            triggerValue |-> kept[x].market_price,
            old_stop_loss |-> stops[x].price,
            new_stop_loss |-> kept[x].price ] ]

\* variant: the result is scaled by the position, positionSizePercent of
\* the balance
processTradeResult_Sized(tc, exit, balance, tradeCount) ==
  LET r == calculatePnL(tc.entry_price, exit.price, tc.direction)
      trails == Trails(exit.trailing_stops)
      sized == RMul(calculateTradeSize(balance, tc.entry_price), r.pnl)
  IN  [ trade_Number |-> tradeCount + 1,
        timestamp |-> tc.crossed_at,
        side |-> tc.direction,
        entry_price |-> tc.entry_price,
        entry_time |-> tc.crossed_at,
        initial_stop |-> exit.trailing_stops[1].price,
        trails |-> trails,
        exit_time |-> exit.time,
        final_stop_loss_price |-> exit.price,
        total_trails_before_exit |-> Len(trails),
        PNL_in_percent |-> ToFixed2(r.pnl_percentage),
        PNL |-> ToFixed2(sized),
        balance_after_trade |-> RAdd(balance, sized) ]

\* variant: the balance after the trade is built from the rounded PNL
processTradeResult_RoundedBalance(tc, exit, balance, tradeCount) ==
  LET r == calculatePnL(tc.entry_price, exit.price, tc.direction)
      trails == Trails(exit.trailing_stops)
  IN  [ trade_Number |-> tradeCount + 1,
        timestamp |-> tc.crossed_at,
        side |-> tc.direction,
        entry_price |-> tc.entry_price,
        entry_time |-> tc.crossed_at,
        initial_stop |-> exit.trailing_stops[1].price,
        trails |-> trails,
        exit_time |-> exit.time,
        final_stop_loss_price |-> exit.price,
        total_trails_before_exit |-> Len(trails),
        PNL_in_percent |-> ToFixed2(r.pnl_percentage),
        PNL |-> ToFixed2(r.pnl),
        balance_after_trade |-> RAdd(balance, ToFixed2(r.pnl)) ]

\* processTradeResult
processTradeResult(tc, exit, balance, tradeCount) ==
  LET r == calculatePnL(tc.entry_price, exit.price, tc.direction)
      trails == Trails(exit.trailing_stops)
  IN  [ trade_Number |-> tradeCount + 1,
        timestamp |-> tc.crossed_at,
        side |-> tc.direction,
        entry_price |-> tc.entry_price,
        entry_time |-> tc.crossed_at,
        initial_stop |-> exit.trailing_stops[1].price,
        trails |-> trails,
        exit_time |-> exit.time,
        final_stop_loss_price |-> exit.price,
        total_trails_before_exit |-> Len(trails),
        PNL_in_percent |-> ToFixed2(r.pnl_percentage),
        PNL |-> ToFixed2(r.pnl),
        balance_after_trade |-> RAdd(balance, r.pnl) ]

\* updateBalance: the entry pushed onto balanceHistory
BalanceUpdate(tradeResult) ==
  [ timestamp |-> tradeResult.exit_time,
    balance |-> tradeResult.balance_after_trade,
    trade_pnl |-> tradeResult.PNL,
    trade_type |-> "TRAILING_STOP" ]

\* storeMatchingCandle: the record pushed onto matchingCandles.  The fields
\* exit and entry keep the TradeExit and the entry the trade was simulated
\* with, pnl the unrounded result of calculatePnL.
MatchingCandle(legend, tc, tradeResult, exit, e) ==
  [ timestamp |-> legend.timestamp,
    dynamicThreshold |-> legend.dynamicThreshold,
    averageMovement |-> legend.averageDiff,
    movement |-> legend.currentDiff,
    upward_movementThreshold |-> legend.upward_movementThreshold,
    downward_movementThreshold |-> legend.downward_movementThreshold,
    threshold_crossed |-> tc,
    trade_result |-> tradeResult,
    exit |-> exit,
    entry |-> e,
    pnl |-> calculatePnL(tc.entry_price, exit.price, tc.direction).pnl ]

\* variant: the exhausted trade is closed at the active stop and recorded
SimAbandon_Recorded ==
  /\ pc = "stop"
  /\ ~SimInRange
  /\ LET exit == createTradeExit(candles[entry.startIndex], currentStopLoss, look,
                                 trailingHistory)
         tradeResult == processTradeResult(threshold_crossed, exit, currentBalance,
                                           Len(matchingCandles))
     IN  /\ currentBalance' = tradeResult.balance_after_trade
         /\ balanceHistory' = Append(balanceHistory, BalanceUpdate(tradeResult))
         /\ matchingCandles' =
              Append(matchingCandles,
                     MatchingCandle(legendCandle, threshold_crossed, tradeResult,
                                    exit, entry))
  /\ ReturnToScan
  /\ UNCHANGED << outside, inputs, legendCandle, threshold_crossed, simLocals >>

\* the horizon or the store is exhausted: checkTradeOutcome returns null and
\* processCandle records nothing
SimAbandon ==
  /\ pc = "stop"
  /\ ~SimInRange
  /\ ReturnToScan
  /\ UNCHANGED << outside, inputs, account, legendCandle, threshold_crossed, simLocals >>

\* the active stop is hit: the exit is created, the trade result is built,
\* the balance is updated and the trade is stored
SimStopHit ==
  /\ pc = "stop"
  /\ SimInRange
  /\ StopHit(entry.side, SimCandle, currentStopLoss)
  /\ LET exit == createTradeExit(SimCandle, currentStopLoss, look, trailingHistory)
         tradeResult == processTradeResult(threshold_crossed, exit, currentBalance,
                                           Len(matchingCandles))
     IN  /\ trailingHistory' = exit.trailing_stops
         /\ currentBalance' = tradeResult.balance_after_trade
         /\ balanceHistory' = Append(balanceHistory, BalanceUpdate(tradeResult))
         /\ matchingCandles' =
              Append(matchingCandles,
                     MatchingCandle(legendCandle, threshold_crossed, tradeResult,
                                    exit, entry))
  /\ ReturnToScan
  /\ UNCHANGED << outside, inputs, legendCandle, threshold_crossed, entry, triggerLevels,
                  currentStopLoss, currentTriggerIndex >>

\* the active stop is not hit: the trigger loop is entered
SimNoStop ==
  /\ pc = "stop"
  /\ SimInRange
  /\ ~StopHit(entry.side, SimCandle, currentStopLoss)
  /\ pc' = "trail"
  /\ UNCHANGED << outside, inputs, account, currentIndex, legendCandle, threshold_crossed,
                  look, simLocals >>

\* condition of one more iteration of the trigger loop that promotes
PromotionDue ==
  /\ currentTriggerIndex < Cardinality(DOMAIN triggerLevels)
  /\ TriggerCrossed(entry.side, SimCandle, triggerLevels[currentTriggerIndex])

\* the trail event pushed by one promotion
TrailEvent(side, c, level, entryPrice) ==
  [ price |-> level.stopLoss,
    time |-> FormatTime(c.openTime),
    type |-> IF side = "LONG" THEN "TRAIL_UP" ELSE "TRAIL_DOWN",
    market_price |-> IF side = "LONG" THEN R(c.high) ELSE R(c.low),
    profit_at_update |->
      IF entryPrice.n = 0 THEN R(0)
      ELSE RMul(RDiv(RMul(R(IF side = "LONG" THEN 1 ELSE -1),
                          RSub(level.trigger, entryPrice)), entryPrice), R(100)) ]

\* variant: an `if` in place of the `while`, one promotion per candle
SimPromote_Single ==
  /\ pc = "trail"
  /\ PromotionDue
  /\ LET nextTrigger == triggerLevels[currentTriggerIndex]
     IN  /\ currentStopLoss' = nextTrigger.stopLoss
         /\ trailingHistory' =
              Append(trailingHistory,
                     TrailEvent(entry.side, SimCandle, nextTrigger, entry.price))
  /\ currentTriggerIndex' = currentTriggerIndex + 1
  /\ pc' = "stop"
  /\ look' = look + 1
  /\ UNCHANGED << outside, inputs, account, currentIndex, legendCandle,
                  threshold_crossed, entry, triggerLevels >>

\* variant: the stop test is made again, on the same candle, after each
\* promotion
SimPromote_Retest ==
  /\ pc = "trail"
  /\ PromotionDue
  /\ LET nextTrigger == triggerLevels[currentTriggerIndex]
     IN  /\ currentStopLoss' = nextTrigger.stopLoss
         /\ trailingHistory' =
              Append(trailingHistory,
                     TrailEvent(entry.side, SimCandle, nextTrigger, entry.price))
  /\ currentTriggerIndex' = currentTriggerIndex + 1
  /\ pc' = "stop"
  /\ UNCHANGED << outside, inputs, account, currentIndex, legendCandle,
                  threshold_crossed, look, entry, triggerLevels >>

\* variant: the stop is moved to the crossed trigger price itself
SimPromote_StopAtTrigger ==
  /\ pc = "trail"
  /\ PromotionDue
  /\ LET nextTrigger == triggerLevels[currentTriggerIndex]
     IN  /\ currentStopLoss' = nextTrigger.trigger
         /\ trailingHistory' =
              Append(trailingHistory,
                     TrailEvent(entry.side, SimCandle, nextTrigger, entry.price))
  /\ currentTriggerIndex' = currentTriggerIndex + 1
  /\ UNCHANGED << outside, inputs, account, pc, currentIndex, legendCandle,
                  threshold_crossed, look, entry, triggerLevels >>

\* one iteration of the while loop: the next trigger is crossed
SimPromote ==
  /\ pc = "trail"
  /\ PromotionDue
  /\ LET nextTrigger == triggerLevels[currentTriggerIndex]
     IN  /\ currentStopLoss' = nextTrigger.stopLoss
         /\ trailingHistory' =
              Append(trailingHistory,
                     TrailEvent(entry.side, SimCandle, nextTrigger, entry.price))
  /\ currentTriggerIndex' = currentTriggerIndex + 1
  /\ UNCHANGED << outside, inputs, account, pc, currentIndex, legendCandle,
                  threshold_crossed, look, entry, triggerLevels >>

\* variant: the for loop of checkTradeOutcome does not advance its counter
SimNextCandle_NoAdvance ==
  /\ pc = "trail"
  /\ ~PromotionDue
  /\ pc' = "stop"
  /\ UNCHANGED << outside, inputs, account, currentIndex, legendCandle,
                  threshold_crossed, look, simLocals >>

\* the while loop ends (break, or no level left): next candle
SimNextCandle ==
  /\ pc = "trail"
  /\ ~PromotionDue
  /\ pc' = "stop"
  /\ look' = look + 1
  /\ UNCHANGED << outside, inputs, account, currentIndex, legendCandle, threshold_crossed,
                  simLocals >>

(***************************************************************************)
(* findMatchingCandles: end of the loop, saveResults                       *)
(***************************************************************************)
SaveResults ==
  /\ pc = "scan"
  /\ currentIndex >= NumCandles
  /\ pc' = "done"
  /\ UNCHANGED << outside, inputs, account, currentIndex, legendCandle, threshold_crossed,
                  look, simLocals >>

Next ==
  \/ ProcessCandleNoLegend
  \/ ProcessCandleLegend
  \/ CrossNone
  \/ CrossStep
  \/ CrossEntry
  \/ SimAbandon
  \/ SimStopHit
  \/ SimNoStop
  \/ SimPromote
  \/ SimNextCandle
  \/ SaveResults

Spec == Init /\ [][Next]_vars

(***************************************************************************)
(* Runs that differ in the account configuration: the same stores, with    *)
(* fewer candle shapes, under several initial balances and position sizes  *)
(***************************************************************************)
SizingShapes ==
  { Candle(100, 110, 100, 110),    \* a 10% up move
    Candle(110, 125, 110, 110),    \* spike up
    Candle(100, 100,  75, 100),    \* spike down
    Candle(110, 112, 110, 110) }   \* quiet

\* runConfig.account.initialBalance of the runs compared
SizingBalances == { 1000, 500 }
\* config.account.positionSizePercent of the runs compared
SizingPercents == { 100, 50 }

InitSizing ==
  /\ \E w \in WindowShapes,
        t \in [LookbackPeriod .. (FullLength - 1) -> SizingShapes] :
       candles = FullStore(w, t)
  /\ initialBalance \in SizingBalances
  /\ positionSizePercent \in SizingPercents
  /\ maxTriggerLevels = MaxTriggerLevels
  /\ matchingCandles = << >>
  /\ currentBalance = R(initialBalance)
  /\ balanceHistory = << >>
  /\ pc = "scan"
  /\ currentIndex = LookbackPeriod
  /\ legendCandle = None
  /\ threshold_crossed = None
  /\ look = 0
  /\ entry = None
  /\ triggerLevels = << >>
  /\ currentStopLoss = R(0)
  /\ currentTriggerIndex = 0
  /\ trailingHistory = << >>
  /\ completedRuns = << >>
  /\ BatchIdle
  /\ LadderIdle
  /\ FetchIdle

SpecSizing == InitSizing /\ [][Next]_vars

(***************************************************************************)
(* Runs that differ in the configured number of trigger levels, none       *)
(* included                                                                *)
(***************************************************************************)
InitLevels ==
  /\ \E w \in WindowShapes,
        t \in [LookbackPeriod .. (FullLength - 1) -> SizingShapes] :
       candles = FullStore(w, t)
  /\ initialBalance = InitialBalance
  /\ positionSizePercent = PositionSizePercent
  /\ maxTriggerLevels \in 0 .. MaxTriggerLevels
  /\ matchingCandles = << >>
  /\ currentBalance = R(initialBalance)
  /\ balanceHistory = << >>
  /\ pc = "scan"
  /\ currentIndex = LookbackPeriod
  /\ legendCandle = None
  /\ threshold_crossed = None
  /\ look = 0
  /\ entry = None
  /\ triggerLevels = << >>
  /\ currentStopLoss = R(0)
  /\ currentTriggerIndex = 0
  /\ trailingHistory = << >>
  /\ completedRuns = << >>
  /\ BatchIdle
  /\ LadderIdle
  /\ FetchIdle

SpecLevels == InitLevels /\ [][Next]_vars

\* the same runs, never suspended for ever: findMatchingCandles is one
\* chain of awaits with no other party to wait for
\* candles of the stores whose runs are followed to their end
FairShapes ==
  { Candle(100, 110, 100, 110),    \* a 10% up move
    Candle(110, 125, 110, 110),    \* spike up
    Candle(100, 100,  75, 100) }   \* spike down

InitLevelsFair ==
  /\ \E w \in WindowShapes,
        t \in [LookbackPeriod .. (FullLength - 1) -> FairShapes] :
       candles = FullStore(w, t)
  /\ initialBalance = InitialBalance
  /\ positionSizePercent = PositionSizePercent
  /\ maxTriggerLevels \in 0 .. MaxTriggerLevels
  /\ matchingCandles = << >>
  /\ currentBalance = R(initialBalance)
  /\ balanceHistory = << >>
  /\ pc = "scan"
  /\ currentIndex = LookbackPeriod
  /\ legendCandle = None
  /\ threshold_crossed = None
  /\ look = 0
  /\ entry = None
  /\ triggerLevels = << >>
  /\ currentStopLoss = R(0)
  /\ currentTriggerIndex = 0
  /\ trailingHistory = << >>
  /\ completedRuns = << >>
  /\ BatchIdle
  /\ LadderIdle
  /\ FetchIdle

SpecLevelsFair == InitLevelsFair /\ [][Next]_vars /\ WF_vars(Next)

(***************************************************************************)
(* The same store and configuration run twice: runSingleBacktest builds a  *)
(* new Backtester, loads the same files and calls findMatchingCandles      *)
(***************************************************************************)
RunAgain ==
  /\ pc = "done"
  /\ completedRuns = << >>
  /\ completedRuns' = << [ matchingCandles |-> matchingCandles,
                           balanceHistory |-> balanceHistory,
                           currentBalance |-> currentBalance ] >>
  /\ matchingCandles' = << >>
  /\ currentBalance' = R(initialBalance)
  /\ balanceHistory' = << >>
  /\ pc' = "scan"
  /\ currentIndex' = LookbackPeriod
  /\ legendCandle' = None
  /\ threshold_crossed' = None
  /\ look' = 0
  /\ entry' = None
  /\ triggerLevels' = << >>
  /\ currentStopLoss' = R(0)
  /\ currentTriggerIndex' = 0
  /\ trailingHistory' = << >>
  /\ UNCHANGED << batchVars, ladderVars, fetchVars, inputs >>

NextRepeat ==
  \/ Next
  \/ RunAgain

\* candles of the stores that are run twice
RepeatShapes ==
  { Candle(100, 110, 100, 110),    \* a 10% up move
    Candle(110, 150,  75, 110),    \* wide: reaches both levels
    Candle(110, 125, 110, 110),    \* spike up
    Candle(100, 100,  75, 100) }   \* spike down

InitRepeat ==
  /\ \E w \in WindowShapes,
        t \in [LookbackPeriod .. (FullLength - 1) -> RepeatShapes] :
       candles = FullStore(w, t)
  /\ initialBalance = InitialBalance
  /\ positionSizePercent = PositionSizePercent
  /\ maxTriggerLevels = MaxTriggerLevels
  /\ matchingCandles = << >>
  /\ currentBalance = R(initialBalance)
  /\ balanceHistory = << >>
  /\ pc = "scan"
  /\ currentIndex = LookbackPeriod
  /\ legendCandle = None
  /\ threshold_crossed = None
  /\ look = 0
  /\ entry = None
  /\ triggerLevels = << >>
  /\ currentStopLoss = R(0)
  /\ currentTriggerIndex = 0
  /\ trailingHistory = << >>
  /\ completedRuns = << >>
  /\ BatchIdle
  /\ LadderIdle
  /\ FetchIdle

SpecRepeat == InitRepeat /\ [][NextRepeat]_vars

(***************************************************************************)
(* BatchProcessor in parallel mode: processAll downloads every             *)
(* symbol/timeframe pair, then backtests every pair, in batches of         *)
(* concurrencyLimit tasks awaited with Promise.all.  A task's position is  *)
(* the await it is suspended at; the runs of a batch share the file        *)
(* system.  The engine inside a run works on its own Backtester instance   *)
(* and is one step here.                                                   *)
(***************************************************************************)
\* the queue built by the two nested loops over symbols and timeframes
PairQueue ==
  << << "ETHUSDT", "1m" >>, << "ETHUSDT", "3m" >>,
     << "XRPUSDT", "1m" >>, << "XRPUSDT", "3m" >> >>

Pairs == { PairQueue[i] : i \in DOMAIN PairQueue }

\* path.join(__dirname, '../results') and path.join(resultsDir, this.symbol)
ResultsDir == "results"
SymbolDir(p) == p[1]

\* the Backtester, the single run's state, is not touched by the processor
engineVars == << inputs, account, pc, currentIndex, legendCandle,
                 threshold_crossed, look, simLocals, completedRuns >>

\* what no step of the processor writes
untouched == << engineVars, ladderVars, fetchVars, useParallel >>

\* the process is alive and inside one of the two phases
Processing == batchPc \in {"download", "backtest"}

\* tasks started and not settled
InFlight ==
  { p \in Pairs : downloadTask[p] = "fetching" }
    \cup { p \in Pairs : backtestTask[p] \in {"readdir", "engine", "mkdirResults",
                                              "mkdirSymbol", "writing"} }

InitBatch ==
  /\ candles = ShortStore(0)
  /\ initialBalance = InitialBalance
  /\ positionSizePercent = PositionSizePercent
  /\ maxTriggerLevels = MaxTriggerLevels
  /\ matchingCandles = << >>
  /\ currentBalance = R(initialBalance)
  /\ balanceHistory = << >>
  /\ pc = "scan"
  /\ currentIndex = LookbackPeriod
  /\ legendCandle = None
  /\ threshold_crossed = None
  /\ look = 0
  /\ entry = None
  /\ triggerLevels = << >>
  /\ currentStopLoss = R(0)
  /\ currentTriggerIndex = 0
  /\ trailingHistory = << >>
  /\ completedRuns = << >>
  /\ concurrencyLimit \in 1 .. ConcurrencyLimit
  /\ batchPc = "download"
  /\ queue = PairQueue
  /\ batch = {}
  /\ downloadTask = [ p \in Pairs |-> "idle" ]
  /\ backtestTask = [ p \in Pairs |-> "idle" ]
  /\ dirs \in { {}, {ResultsDir}, {ResultsDir} \cup { SymbolDir(p) : p \in Pairs } }
  /\ files = {}
  /\ completedBacktests = {}
  /\ useParallel = TRUE
  /\ awaiting = FALSE
  /\ LadderIdle
  /\ FetchIdle

\* queue.splice(0, this.concurrencyLimit): the pairs taken
SpliceCount == IF concurrencyLimit < Len(queue) THEN concurrencyLimit ELSE Len(queue)
Spliced == { queue[i] : i \in 1 .. SpliceCount }

\* the pairs started before the next await: a spliced batch in parallel
\* mode, in sequential mode the one pair the nested for loops are at (queue
\* then holds the pairs the loops have not reached)
TakeCount == IF useParallel THEN SpliceCount ELSE 1
Taken == { queue[i] : i \in 1 .. TakeCount }

\* downloadAllData: one iteration of the while loop up to the await; each
\* downloadData runs up to its await of fetchHistoricalData
StartDownloadBatch ==
  /\ batchPc = "download"
  /\ ~awaiting
  /\ queue # << >>
  /\ awaiting' = TRUE
  /\ batch' = Taken
  /\ queue' = SubSeq(queue, TakeCount + 1, Len(queue))
  /\ downloadTask' = [ p \in Pairs |->
                         IF p \in Taken THEN "fetching" ELSE downloadTask[p] ]
  /\ UNCHANGED << untouched, concurrencyLimit, batchPc, backtestTask, dirs,
                  files, completedBacktests >>

\* fetchHistoricalData settles: the download is done, or it throws and
\* downloadData rethrows
DownloadSettles(p) ==
  /\ Processing
  /\ downloadTask[p] = "fetching"
  /\ \E outcome \in {"fulfilled", "rejected"} :
       downloadTask' = [ downloadTask EXCEPT ![p] = outcome ]
  /\ UNCHANGED << untouched, concurrencyLimit, batchPc, queue, batch, awaiting,
                  backtestTask, dirs, files, completedBacktests >>

\* variant: the batch is awaited with Promise.allSettled, a rejected
\* download does not stop the phase
AwaitDownloads_Settled ==
  /\ batchPc = "download"
  /\ awaiting
  /\ \A p \in batch : downloadTask[p] \in {"fulfilled", "rejected"}
  /\ awaiting' = FALSE
  /\ batch' = {}
  /\ IF queue = << >>
     THEN batchPc' = "backtest" /\ queue' = PairQueue
     ELSE UNCHANGED << batchPc, queue >>
  /\ UNCHANGED << untouched, concurrencyLimit, downloadTask, backtestTask,
                  dirs, files, completedBacktests >>

\* Promise.all of a download batch resolves; after the last batch
\* runAllBacktests builds its queue
AwaitDownloads ==
  /\ batchPc = "download"
  /\ awaiting
  /\ \A p \in batch : downloadTask[p] = "fulfilled"
  /\ awaiting' = FALSE
  /\ batch' = {}
  /\ IF queue = << >>
     THEN batchPc' = "backtest" /\ queue' = PairQueue
     ELSE UNCHANGED << batchPc, queue >>
  /\ UNCHANGED << untouched, concurrencyLimit, downloadTask, backtestTask,
                  dirs, files, completedBacktests >>

\* variant: the batch is started without awaiting the batch before it
StartBacktestBatch_NoAwait ==
  /\ batchPc = "backtest"
  /\ queue # << >>
  /\ awaiting' = TRUE
  /\ batch' = batch \cup Taken
  /\ queue' = SubSeq(queue, TakeCount + 1, Len(queue))
  /\ backtestTask' = [ p \in Pairs |->
                         IF p \in Taken THEN "readdir" ELSE backtestTask[p] ]
  /\ UNCHANGED << untouched, concurrencyLimit, batchPc, downloadTask, dirs,
                  files, completedBacktests >>

\* runAllBacktests: one iteration of the while loop up to the await; each
\* runBacktest builds its Backtester and runs up to its await of
\* getAllCsvFiles
StartBacktestBatch ==
  /\ batchPc = "backtest"
  /\ ~awaiting
  /\ queue # << >>
  /\ awaiting' = TRUE
  /\ batch' = Taken
  /\ queue' = SubSeq(queue, TakeCount + 1, Len(queue))
  /\ backtestTask' = [ p \in Pairs |->
                         IF p \in Taken THEN "readdir" ELSE backtestTask[p] ]
  /\ UNCHANGED << untouched, concurrencyLimit, batchPc, downloadTask, dirs,
                  files, completedBacktests >>

\* getAllCsvFiles resolves: with no CSV file runBacktest returns, otherwise
\* it goes on to loadData and findMatchingCandles
ReadCsvFiles(p) ==
  /\ Processing
  /\ backtestTask[p] = "readdir"
  /\ \E found \in BOOLEAN :
       backtestTask' = [ backtestTask EXCEPT
                           ![p] = IF found THEN "engine" ELSE "fulfilled" ]
  /\ UNCHANGED << untouched, concurrencyLimit, batchPc, queue, batch, awaiting,
                  downloadTask, dirs, files, completedBacktests >>

\* saveResults once resultsDir exists: existsSync(symbolDir), then mkdir is
\* issued, or else writeFile
AfterResultsDir(p, existing) ==
  IF SymbolDir(p) \in existing THEN "writing" ELSE "mkdirSymbol"

\* loadData and findMatchingCandles have run; saveResults tests
\* existsSync(resultsDir) and issues mkdir if it is absent
SaveResultsStart(p) ==
  /\ Processing
  /\ backtestTask[p] = "engine"
  /\ backtestTask' = [ backtestTask EXCEPT
                         ![p] = IF ResultsDir \in dirs
                                THEN AfterResultsDir(p, dirs)
                                ELSE "mkdirResults" ]
  /\ UNCHANGED << untouched, concurrencyLimit, batchPc, queue, batch, awaiting,
                  downloadTask, dirs, files, completedBacktests >>

\* fs.promises.mkdir(resultsDir) settles: EEXIST if the directory is there
\* by now
MkdirResultsSettles(p) ==
  /\ Processing
  /\ backtestTask[p] = "mkdirResults"
  /\ IF ResultsDir \in dirs
     THEN /\ backtestTask' = [ backtestTask EXCEPT ![p] = "rejected" ]
          /\ UNCHANGED dirs
     ELSE /\ dirs' = dirs \cup {ResultsDir}
          /\ backtestTask' = [ backtestTask EXCEPT
                                 ![p] = AfterResultsDir(p, dirs) ]
  /\ UNCHANGED << untouched, concurrencyLimit, batchPc, queue, batch, awaiting,
                  downloadTask, files, completedBacktests >>

\* fs.promises.mkdir(symbolDir) settles: EEXIST if the directory is there
\* by now
MkdirSymbolSettles(p) ==
  /\ Processing
  /\ backtestTask[p] = "mkdirSymbol"
  /\ IF SymbolDir(p) \in dirs
     THEN /\ backtestTask' = [ backtestTask EXCEPT ![p] = "rejected" ]
          /\ UNCHANGED dirs
     ELSE /\ dirs' = dirs \cup {SymbolDir(p)}
          /\ backtestTask' = [ backtestTask EXCEPT ![p] = "writing" ]
  /\ UNCHANGED << untouched, concurrencyLimit, batchPc, queue, batch, awaiting,
                  downloadTask, files, completedBacktests >>

\* writeFile resolves; runBacktest finds the result file and adds the pair
\* to completedBacktests
WriteFileSettles(p) ==
  /\ Processing
  /\ backtestTask[p] = "writing"
  /\ files' = files \cup {p}
  /\ completedBacktests' = completedBacktests \cup {p}
  /\ backtestTask' = [ backtestTask EXCEPT ![p] = "fulfilled" ]
  /\ UNCHANGED << untouched, concurrencyLimit, batchPc, queue, batch, awaiting,
                  downloadTask, dirs >>

\* variant: the batch is awaited with Promise.allSettled, a rejected
\* backtest does not stop the phase
AwaitBacktests_Settled ==
  /\ batchPc = "backtest"
  /\ awaiting
  /\ \A p \in batch : backtestTask[p] \in {"fulfilled", "rejected"}
  /\ awaiting' = FALSE
  /\ batch' = {}
  /\ batchPc' = IF queue = << >> THEN "summary" ELSE batchPc
  /\ UNCHANGED << untouched, concurrencyLimit, queue, downloadTask,
                  backtestTask, dirs, files, completedBacktests >>

\* Promise.all of a backtest batch resolves; after the last batch
\* generateSummaryReport runs
AwaitBacktests ==
  /\ batchPc = "backtest"
  /\ awaiting
  /\ \A p \in batch : backtestTask[p] = "fulfilled"
  /\ awaiting' = FALSE
  /\ batch' = {}
  /\ batchPc' = IF queue = << >> THEN "summary" ELSE batchPc
  /\ UNCHANGED << untouched, concurrencyLimit, queue, downloadTask,
                  backtestTask, dirs, files, completedBacktests >>

\* Promise.all rejects with the first rejection: processAll throws and
\* runBatchBacktest exits the process
BatchRejected ==
  /\ Processing
  /\ \E p \in batch : downloadTask[p] = "rejected" \/ backtestTask[p] = "rejected"
  /\ batchPc' = "failed"
  /\ UNCHANGED << untouched, concurrencyLimit, queue, batch, awaiting, downloadTask,
                  backtestTask, dirs, files, completedBacktests >>

NextBatch ==
  \/ StartDownloadBatch
  \/ \E p \in Pairs : DownloadSettles(p)
  \/ AwaitDownloads
  \/ StartBacktestBatch
  \/ \E p \in Pairs : ReadCsvFiles(p)
  \/ \E p \in Pairs : SaveResultsStart(p)
  \/ \E p \in Pairs : MkdirResultsSettles(p)
  \/ \E p \in Pairs : MkdirSymbolSettles(p)
  \/ \E p \in Pairs : WriteFileSettles(p)
  \/ AwaitBacktests
  \/ BatchRejected

SpecBatch == InitBatch /\ [][NextBatch]_vars

\* processAll in either mode and with every limit the configuration can
\* give: new BatchProcessor(parallel || false, concurrencyLimit), where 0
\* stands for the values splice takes as a delete count of 0
InitProcessAll ==
  /\ candles = ShortStore(0)
  /\ initialBalance = InitialBalance
  /\ positionSizePercent = PositionSizePercent
  /\ maxTriggerLevels = MaxTriggerLevels
  /\ matchingCandles = << >>
  /\ currentBalance = R(initialBalance)
  /\ balanceHistory = << >>
  /\ pc = "scan"
  /\ currentIndex = LookbackPeriod
  /\ legendCandle = None
  /\ threshold_crossed = None
  /\ look = 0
  /\ entry = None
  /\ triggerLevels = << >>
  /\ currentStopLoss = R(0)
  /\ currentTriggerIndex = 0
  /\ trailingHistory = << >>
  /\ completedRuns = << >>
  /\ useParallel \in BOOLEAN
  /\ concurrencyLimit \in 0 .. ConcurrencyLimit
  /\ batchPc = "download"
  /\ queue = PairQueue
  /\ batch = {}
  /\ awaiting = FALSE
  /\ downloadTask = [ p \in Pairs |-> "idle" ]
  /\ backtestTask = [ p \in Pairs |-> "idle" ]
  /\ dirs \in { {}, {ResultsDir}, {ResultsDir} \cup { SymbolDir(p) : p \in Pairs } }
  /\ files = {}
  /\ completedBacktests = {}
  /\ LadderIdle
  /\ FetchIdle

SpecProcessAll == InitProcessAll /\ [][NextBatch]_vars

\* the event loop runs a continuation that is ready: a settled task's
\* await and the rejection of Promise.all are not postponed for ever
SpecProcessAllFair == InitProcessAll /\ [][NextBatch]_vars /\ WF_vars(NextBatch)

(***************************************************************************)
(* DataFetcher: the downloads of the timeframes of one symbol.  In a       *)
(* parallel batch the DataFetchers of two timeframes run interleaved at    *)
(* their awaits and share <symbol>_data.json; a DataFetcher's position is  *)
(* the await it is suspended at, "loop" being the head of the per-month    *)
(* loop.                                                                   *)
(***************************************************************************)
\* what no step of a DataFetcher writes
notFetch == << engineVars, batchVars, ladderVars >>

\* the timeframes of the symbol that are downloaded
FetchTimeframes == {"1m", "3m"}

\* config.dataFetch.startDate, and the endDate that gives MonthsToFetch months
StartDate == [year |-> 2023, month |-> 12]
EndDate ==
  LET last == (StartDate.month - 1) + (MonthsToFetch - 1)
  IN  [year |-> StartDate.year + (last \div 12), month |-> (last % 12) + 1]

\* getMonthlyFileNames: the while loop from (currentYear, currentMonth),
\* months counted from 0; a file name is given by its year and month, the
\* fields that fileName.match(/(\d{4})-(\d{2})/) and parseInt read back
RECURSIVE MonthlyFileNamesFrom(_, _)
MonthlyFileNamesFrom(currentYear, currentMonth) ==
  IF \/ currentYear < EndDate.year
     \/ (currentYear = EndDate.year /\ currentMonth <= EndDate.month - 1)
  THEN << [year |-> currentYear, month |-> currentMonth + 1] >>
         \o (IF currentMonth + 1 > 11
             THEN MonthlyFileNamesFrom(currentYear + 1, 0)
             ELSE MonthlyFileNamesFrom(currentYear, currentMonth + 1))
  ELSE << >>

getMonthlyFileNames == MonthlyFileNamesFrom(StartDate.year, StartDate.month - 1)

\* the month a DataFetcher is at
FileName(t) == getMonthlyFileNames[fileIndex[t]]

\* SHA-256 digests, in hex: of the zip that is served, and another one
ServedDigest == "aa"
OtherDigest == "bb"

\* responses to the request for the .CHECKSUM file; the body is given as
\* split(' ') splits it: the digest, two spaces, the file name, or nothing
ChecksumResponses ==
  { [ status |-> 200, data |-> << ServedDigest, "", "file.zip" >> ],
    [ status |-> 200, data |-> << OtherDigest, "", "file.zip" >> ],
    [ status |-> 200, data |-> << "" >> ],
    [ status |-> 404, data |-> << >> ] }

\* downloadChecksum: response.data.split(' ')[0], '' when the request fails
downloadChecksum(response) ==
  IF response.status # 200 THEN "" ELSE response.data[1]

\* verifyChecksum: true without a checksum, false when the zip cannot be
\* read, else calculatedChecksum === expectedChecksum
verifyChecksum(zip, expectedChecksum) ==
  IF expectedChecksum = "" THEN TRUE
  ELSE IF ~zip.readable THEN FALSE
  ELSE zip.digest = expectedChecksum

\* year/month comparisons of the availability tracking
Earlier(a, b) == a.year < b.year \/ (a.year = b.year /\ a.month < b.month)

\* dataInfo built when the file is absent, empty or not JSON
NewDataInfo(first, last) ==
  [ firstAvailable |-> first, lastAvailable |-> last, timeframes |-> << >> ]

\* dataInfo.timeframes[this.timeframe] = { downloaded: true, ... }
WithTimeframe(info, t, first, last) ==
  [ info EXCEPT !.timeframes =
      [ x \in (DOMAIN info.timeframes) \cup {t} |->
          IF x = t THEN [ downloaded |-> TRUE, firstDownloaded |-> first,
                          lastDownloaded |-> last ]
          ELSE info.timeframes[x] ] ]

\* contents of <symbol>_data.json that are not a DataAvailability object
EmptyContent == [kind |-> "empty"]
NotJson == [kind |-> "notJson"]

\* JSON.parse of the content read, with the fallbacks of updateDataAvailability
ParseDataInfo(content, first, last) ==
  IF content \in {EmptyContent, NotJson} THEN NewDataInfo(first, last)
  ELSE content

fetchLocals == << checksum, zipFile, unzipped >>
fetchProgress == << firstAvailable, lastAvailable, csvFiles, attempted >>

\* head of the per-month loop: the next month is taken and downloadChecksum
\* is awaited; after the last month updateDataAvailability is called when a
\* month was available, and it runs up to its first await
LoopHead(t) ==
  /\ fetchPc[t] = "loop"
  /\ IF fileIndex[t] < Len(getMonthlyFileNames)
     THEN /\ fileIndex' = [ fileIndex EXCEPT ![t] = @ + 1 ]
          /\ checksum' = [ checksum EXCEPT ![t] = "" ]
          /\ zipFile' = [ zipFile EXCEPT ![t] = None ]
          /\ unzipped' = [ unzipped EXCEPT ![t] = "no" ]
          /\ fetchPc' = [ fetchPc EXCEPT ![t] = "checksum" ]
          /\ UNCHANGED dataInfo
     ELSE /\ IF firstAvailable[t] # None /\ lastAvailable[t] # None
             THEN IF dataFile # None
                  THEN /\ fetchPc' = [ fetchPc EXCEPT ![t] = "reading" ]
                       /\ UNCHANGED dataInfo
                  ELSE /\ dataInfo' =
                            [ dataInfo EXCEPT ![t] =
                                WithTimeframe(NewDataInfo(firstAvailable[t],
                                                          lastAvailable[t]),
                                              t, firstAvailable[t], lastAvailable[t]) ]
                       /\ fetchPc' = [ fetchPc EXCEPT ![t] = "writing" ]
             ELSE /\ fetchPc' = [ fetchPc EXCEPT ![t] = "resolved" ]
                  /\ UNCHANGED dataInfo
          /\ UNCHANGED << fileIndex, fetchLocals >>
  /\ UNCHANGED << notFetch, fetchProgress, dataFile >>

\* downloadChecksum settles; downloadFile is called
ChecksumSettles(t) ==
  /\ fetchPc[t] = "checksum"
  /\ \E response \in ChecksumResponses :
       checksum' = [ checksum EXCEPT ![t] = downloadChecksum(response) ]
  /\ attempted' = [ attempted EXCEPT ![t] = Append(@, FileName(t)) ]
  /\ fetchPc' = [ fetchPc EXCEPT ![t] = "download" ]
  /\ UNCHANGED << notFetch, fileIndex, zipFile, unzipped, firstAvailable, lastAvailable,
                  csvFiles, dataInfo, dataFile >>

\* variant: an error that is not a 404 is thrown again by the catch block
DownloadFileSettles_Rethrow(t) ==
  /\ fetchPc[t] = "download"
  /\ \E outcome \in {"ok", "404", "error"}, readable \in BOOLEAN :
       IF outcome = "ok"
       THEN /\ zipFile' = [ zipFile EXCEPT
                              ![t] = [ digest |-> ServedDigest, readable |-> readable ] ]
            /\ fetchPc' = [ fetchPc EXCEPT
                              ![t] = IF checksum[t] # "" THEN "verify" ELSE "unzip" ]
       ELSE /\ fetchPc' = [ fetchPc EXCEPT
                              ![t] = IF outcome = "error" THEN "rejected" ELSE "loop" ]
            /\ UNCHANGED zipFile
  /\ UNCHANGED << notFetch, fileIndex, checksum, unzipped, fetchProgress, dataInfo, dataFile >>

\* downloadFile settles: the zip is written, or the request fails with 404
\* (continue) or otherwise (logged by the catch block); with a checksum
\* verifyChecksum is awaited, without one unzipFile
DownloadFileSettles(t) ==
  /\ fetchPc[t] = "download"
  /\ \E outcome \in {"ok", "404", "error"}, readable \in BOOLEAN :
       IF outcome = "ok"
       THEN /\ zipFile' = [ zipFile EXCEPT
                              ![t] = [ digest |-> ServedDigest, readable |-> readable ] ]
            /\ fetchPc' = [ fetchPc EXCEPT
                              ![t] = IF checksum[t] # "" THEN "verify" ELSE "unzip" ]
       ELSE /\ fetchPc' = [ fetchPc EXCEPT ![t] = "loop" ]
            /\ UNCHANGED zipFile
  /\ UNCHANGED << notFetch, fileIndex, checksum, unzipped, fetchProgress, dataInfo, dataFile >>

\* variant: the result of verifyChecksum is not looked at
VerifyChecksumSettles_Ignored(t) ==
  /\ fetchPc[t] = "verify"
  /\ fetchPc' = [ fetchPc EXCEPT ![t] = "unzip" ]
  /\ UNCHANGED << notFetch, fileIndex, fetchLocals, fetchProgress, dataInfo, dataFile >>

\* verifyChecksum settles: a zip that is not valid is skipped
VerifyChecksumSettles(t) ==
  /\ fetchPc[t] = "verify"
  /\ fetchPc' = [ fetchPc EXCEPT
                    ![t] = IF verifyChecksum(zipFile[t], checksum[t])
                           THEN "unzip" ELSE "loop" ]
  /\ UNCHANGED << notFetch, fileIndex, fetchLocals, fetchProgress, dataInfo, dataFile >>

\* unzipFile settles: the zip cannot be opened ("corrupt"), or it is
\* extracted and verifyExtractedFiles fails ("unverified"), or succeeds
\* ("ok") and the month is counted in firstAvailable and lastAvailable
UnzipSettles(t) ==
  /\ fetchPc[t] = "unzip"
  /\ \E outcome \in IF zipFile[t].readable THEN {"ok", "corrupt", "unverified"}
                                            ELSE {"corrupt"} :
       /\ unzipped' = [ unzipped EXCEPT ![t] = outcome ]
       /\ csvFiles' = [ csvFiles EXCEPT
                          ![t] = IF outcome = "corrupt" THEN @ ELSE @ \cup {FileName(t)} ]
       /\ IF outcome = "ok"
          THEN /\ firstAvailable' =
                    [ firstAvailable EXCEPT
                        ![t] = IF @ = None \/ Earlier(FileName(t), @)
                               THEN FileName(t) ELSE @ ]
               /\ lastAvailable' =
                    [ lastAvailable EXCEPT
                        ![t] = IF @ = None \/ Earlier(@, FileName(t))
                               THEN FileName(t) ELSE @ ]
          ELSE UNCHANGED << firstAvailable, lastAvailable >>
  /\ fetchPc' = [ fetchPc EXCEPT ![t] = "loop" ]
  /\ UNCHANGED << notFetch, fileIndex, checksum, zipFile, attempted, dataInfo, dataFile >>

\* updateDataAvailability: readFile settles, the content is parsed, the
\* own timeframe is entered and writeFile is called with the result
ReadDataFileSettles(t) ==
  /\ fetchPc[t] = "reading"
  /\ dataInfo' = [ dataInfo EXCEPT
                     ![t] = WithTimeframe(ParseDataInfo(dataFile, firstAvailable[t],
                                                        lastAvailable[t]),
                                          t, firstAvailable[t], lastAvailable[t]) ]
  /\ fetchPc' = [ fetchPc EXCEPT ![t] = "writing" ]
  /\ UNCHANGED << notFetch, fileIndex, fetchLocals, fetchProgress, dataFile >>

\* writeFile has opened the file, which truncates it
WriteDataFileOpens(t) ==
  /\ fetchPc[t] = "writing"
  /\ dataFile' = EmptyContent
  /\ fetchPc' = [ fetchPc EXCEPT ![t] = "written" ]
  /\ UNCHANGED << notFetch, fileIndex, fetchLocals, fetchProgress, dataInfo >>

\* writeFile settles: the file holds the JSON text of dataInfo;
\* updateDataAvailability and fetchHistoricalData return
WriteDataFileSettles(t) ==
  /\ fetchPc[t] = "written"
  /\ dataFile' = dataInfo[t]
  /\ fetchPc' = [ fetchPc EXCEPT ![t] = "resolved" ]
  /\ UNCHANGED << notFetch, fileIndex, fetchLocals, fetchProgress, dataInfo >>


\* no Backtester has been built yet
BacktesterUnused ==
  /\ candles = ShortStore(0)
  /\ initialBalance = InitialBalance
  /\ positionSizePercent = PositionSizePercent
  /\ maxTriggerLevels = MaxTriggerLevels
  /\ matchingCandles = << >>
  /\ currentBalance = R(initialBalance)
  /\ balanceHistory = << >>
  /\ pc = "scan"
  /\ currentIndex = LookbackPeriod
  /\ legendCandle = None
  /\ threshold_crossed = None
  /\ look = 0
  /\ entry = None
  /\ triggerLevels = << >>
  /\ currentStopLoss = R(0)
  /\ currentTriggerIndex = 0
  /\ trailingHistory = << >>
  /\ completedRuns = << >>

\* <symbol>_data.json before the download: absent, empty, broken or left by
\* an earlier download of another timeframe
DataFilesBefore ==
  { None, EmptyContent, NotJson,
    WithTimeframe(NewDataInfo(StartDate, StartDate), "5m", StartDate, StartDate) }

\* fetchHistoricalData of one DataFetcher has found data missing and has
\* created the directories; no other download runs
InitFetch ==
  /\ BacktesterUnused
  /\ BatchIdle
  /\ LadderIdle
  /\ fetchPc = [ t \in FetchTimeframes |-> IF t = "1m" THEN "loop" ELSE "absent" ]
  /\ fileIndex = [ t \in FetchTimeframes |-> 0 ]
  /\ checksum = [ t \in FetchTimeframes |-> "" ]
  /\ zipFile = [ t \in FetchTimeframes |-> None ]
  /\ unzipped = [ t \in FetchTimeframes |-> "no" ]
  /\ firstAvailable = [ t \in FetchTimeframes |-> None ]
  /\ lastAvailable = [ t \in FetchTimeframes |-> None ]
  /\ csvFiles = [ t \in FetchTimeframes |-> {} ]
  /\ attempted = [ t \in FetchTimeframes |-> << >> ]
  /\ dataInfo = [ t \in FetchTimeframes |-> None ]
  /\ dataFile \in DataFilesBefore

NextFetch ==
  \E t \in FetchTimeframes :
    \/ LoopHead(t)
    \/ ChecksumSettles(t)
    \/ DownloadFileSettles(t)
    \/ VerifyChecksumSettles(t)
    \/ UnzipSettles(t)
    \/ ReadDataFileSettles(t)
    \/ WriteDataFileOpens(t)
    \/ WriteDataFileSettles(t)

SpecFetch == InitFetch /\ [][NextFetch]_vars

\* the months before the last one
EarlierMonths == SubSeq(getMonthlyFileNames, 1, Len(getMonthlyFileNames) - 1)

\* the DataFetchers of the two timeframes, started by one batch of
\* downloadAllData in parallel mode, followed from the last month of their
\* loops: each has counted none or all of the earlier months and awaits
\* downloadChecksum
InitFetchParallel ==
  /\ BacktesterUnused
  /\ BatchIdle
  /\ LadderIdle
  /\ fetchPc = [ t \in FetchTimeframes |-> "checksum" ]
  /\ fileIndex = [ t \in FetchTimeframes |-> Len(getMonthlyFileNames) ]
  /\ checksum = [ t \in FetchTimeframes |-> "" ]
  /\ zipFile = [ t \in FetchTimeframes |-> None ]
  /\ unzipped = [ t \in FetchTimeframes |-> "no" ]
  /\ \E counted \in [ FetchTimeframes -> BOOLEAN ] :
       /\ firstAvailable =
            [ t \in FetchTimeframes |->
                IF counted[t] /\ EarlierMonths # << >> THEN EarlierMonths[1] ELSE None ]
       /\ lastAvailable =
            [ t \in FetchTimeframes |->
                IF counted[t] /\ EarlierMonths # << >>
                THEN EarlierMonths[Len(EarlierMonths)] ELSE None ]
       /\ csvFiles =
            [ t \in FetchTimeframes |->
                IF counted[t] THEN { EarlierMonths[i] : i \in DOMAIN EarlierMonths }
                ELSE {} ]
  /\ attempted = [ t \in FetchTimeframes |-> EarlierMonths ]
  /\ dataInfo = [ t \in FetchTimeframes |-> None ]
  /\ dataFile \in DataFilesBefore

SpecFetchParallel == InitFetchParallel /\ [][NextFetch]_vars

\* a request or a file operation that was issued settles, and the
\* continuation of a settled await runs
SpecFetchFair == InitFetch /\ [][NextFetch]_vars /\ WF_vars(NextFetch)

(***************************************************************************)
(* The two calculateTriggerLevels, computed as the program computes them:  *)
(* every operation on numbers gives the nearest number with MantissaBits   *)
(* significant bits, ties to even.                                         *)
(***************************************************************************)
RECURSIVE Pow2(_)
Pow2(k) == IF k = 0 THEN 1 ELSE 2 * Pow2(k - 1)

\* n / d scaled by 2^k, as a numerator and a denominator
ScaledNum(n, k) == IF k >= 0 THEN n * Pow2(k) ELSE n
ScaledDen(d, k) == IF k >= 0 THEN d ELSE d * Pow2(0 - k)

\* the exponent k with 2^(MantissaBits-1) <= (n / d) * 2^k < 2^MantissaBits
RECURSIVE Exponent(_, _, _)
Exponent(n, d, k) ==
  IF ScaledNum(n, k) < ScaledDen(d, k) * Pow2(MantissaBits - 1)
  THEN Exponent(n, d, k + 1)
  ELSE IF ScaledNum(n, k) >= ScaledDen(d, k) * Pow2(MantissaBits)
       THEN Exponent(n, d, k - 1)
       ELSE k

\* the integer nearest to num / den, ties to even
NearestEven(num, den) ==
  LET q == num \div den
      r == num % den
  IN  IF 2 * r > den \/ (2 * r = den /\ q % 2 = 1) THEN q + 1 ELSE q

\* rounding of a result to the nearest representable number
Fl(x) ==
  IF x.n = 0 THEN x
  ELSE LET k == Exponent(Abs(x.n), x.d, 0)
           m == NearestEven(ScaledNum(Abs(x.n), k), ScaledDen(x.d, k))
           sign == IF x.n < 0 THEN 0 - 1 ELSE 1
       IN  Norm(sign * ScaledDen(m, k), ScaledNum(1, k))

FlAdd(a, b) == Fl(RAdd(a, b))
FlSub(a, b) == Fl(RSub(a, b))
FlMul(a, b) == Fl(RMul(a, b))
FlDiv(a, b) == Fl(RDiv(a, b))

\* variant: the legacy levels are computed from a fixed delta as well
LegacyLadder_FixedDelta(entryPrice, side, dynamicThreshold) ==
  LET thresholdValue == FlMul(entryPrice, FlDiv(dynamicThreshold, R(100)))
  IN  [ i \in 1 .. LegacyLevels |->
          IF side = "LONG"
          THEN LET trigger == FlAdd(entryPrice, FlMul(thresholdValue, R(i)))
               IN  [ trigger |-> trigger, stopLoss |-> FlSub(trigger, thresholdValue) ]
          ELSE LET trigger == FlSub(entryPrice, FlMul(thresholdValue, R(i)))
               IN  [ trigger |-> trigger, stopLoss |-> FlAdd(trigger, thresholdValue) ] ]

\* legacy calculateTriggerLevels: levels i = 1 .. 20,
\* trigger = entryPrice * (1 +/- thresholdMultiplier * i),
\* stopLoss = entryPrice * (1 +/- thresholdMultiplier * (i - 1))
LegacyLadder(entryPrice, side, dynamicThreshold) ==
  LET thresholdMultiplier == FlDiv(dynamicThreshold, R(100))
  IN  [ i \in 1 .. LegacyLevels |->
          IF side = "LONG"
          THEN [ trigger |-> FlMul(entryPrice,
                               FlAdd(R(1), FlMul(thresholdMultiplier, R(i)))),
                 stopLoss |-> FlMul(entryPrice,
                               FlAdd(R(1), FlMul(thresholdMultiplier, R(i - 1)))) ]
          ELSE [ trigger |-> FlMul(entryPrice,
                               FlSub(R(1), FlMul(thresholdMultiplier, R(i)))),
                 stopLoss |-> FlMul(entryPrice,
                               FlSub(R(1), FlMul(thresholdMultiplier, R(i - 1)))) ] ]

\* current calculateTriggerLevels: level 0 and levels i = 1 .. maxTriggerLevels,
\* trigger = entryPrice +/- thresholdValue * i, stopLoss = trigger -/+ thresholdValue
FixedDeltaLadder(entryPrice, side, dynamicThreshold) ==
  LET thresholdValue == FlMul(entryPrice, FlDiv(dynamicThreshold, R(100)))
  IN  [ i \in 0 .. maxTriggerLevels |->
          IF i = 0
          THEN [ trigger |-> entryPrice,
                 stopLoss |-> IF side = "LONG" THEN FlSub(entryPrice, thresholdValue)
                                               ELSE FlAdd(entryPrice, thresholdValue) ]
          ELSE IF side = "LONG"
               THEN LET trigger == FlAdd(entryPrice, FlMul(thresholdValue, R(i)))
                    IN  [ trigger |-> trigger,
                          stopLoss |-> FlSub(trigger, thresholdValue) ]
               ELSE LET trigger == FlSub(entryPrice, FlMul(thresholdValue, R(i)))
                    IN  [ trigger |-> trigger,
                          stopLoss |-> FlAdd(trigger, thresholdValue) ] ]

\* entry prices and dynamic thresholds (percent) the ladders are computed
\* for; all of them are representable numbers
LadderPrices == { R(96 + 2 * x) : x \in 0 .. 15 }
LadderThresholds == { [n |-> 1, d |-> 2], R(1), R(2), R(3) }
LadderInputs ==
  [ entryPrice : LadderPrices, side : {"LONG", "SHORT"},
    dynamicThreshold : LadderThresholds ]

notLadder == << candles, initialBalance, positionSizePercent, maxTriggerLevels,
                account, pc, currentIndex, legendCandle, threshold_crossed,
                look, simLocals, completedRuns, batchVars, fetchVars >>

\* the legacy Backtester's checkTradeOutcome calls calculateTriggerLevels
LegacyCalculateTriggerLevels ==
  /\ ladderInput # None
  /\ legacyLevels = << >>
  /\ legacyLevels' = LegacyLadder(ladderInput.entryPrice, ladderInput.side,
                                  ladderInput.dynamicThreshold)
  /\ UNCHANGED << notLadder, ladderInput, currentLevels >>

\* the current Backtester's checkTradeOutcome calls calculateTriggerLevels
CurrentCalculateTriggerLevels ==
  /\ ladderInput # None
  /\ currentLevels = << >>
  /\ currentLevels' = FixedDeltaLadder(ladderInput.entryPrice, ladderInput.side,
                                       ladderInput.dynamicThreshold)
  /\ UNCHANGED << notLadder, ladderInput, legacyLevels >>

\* one entry is given to both variants, the current one configured with as
\* many levels as the legacy one has (the shipped maxTriggerLevels is 20)
InitLadder ==
  /\ candles = ShortStore(0)
  /\ initialBalance = InitialBalance
  /\ positionSizePercent = PositionSizePercent
  /\ maxTriggerLevels = LegacyLevels
  /\ matchingCandles = << >>
  /\ currentBalance = R(initialBalance)
  /\ balanceHistory = << >>
  /\ pc = "scan"
  /\ currentIndex = LookbackPeriod
  /\ legendCandle = None
  /\ threshold_crossed = None
  /\ look = 0
  /\ entry = None
  /\ triggerLevels = << >>
  /\ currentStopLoss = R(0)
  /\ currentTriggerIndex = 0
  /\ trailingHistory = << >>
  /\ completedRuns = << >>
  /\ BatchIdle
  /\ FetchIdle
  /\ ladderInput \in LadderInputs
  /\ legacyLevels = << >>
  /\ currentLevels = << >>

NextLadder == LegacyCalculateTriggerLevels \/ CurrentCalculateTriggerLevels

SpecLadder == InitLadder /\ [][NextLadder]_vars

(***************************************************************************)
(* Reading recorded trades                                                 *)
(***************************************************************************)
\* index of the candle with a given formatted open time
IndexOfTime(t) == (t * 1000) \div CandleMs

LegendIndex(m) == IndexOfTime(m.timestamp)
EntryIndex(m) == IndexOfTime(m.trade_result.entry_time)
ExitIndex(m) == IndexOfTime(m.trade_result.exit_time)

IsTrail(e) == e.type \in {"TRAIL_UP", "TRAIL_DOWN"}

RECURSIVE SumPnl(_, _)
SumPnl(trades, S) ==
  IF S = {} THEN R(0)
  ELSE LET x == CHOOSE y \in S : TRUE
       IN  RAdd(trades[x].pnl, SumPnl(trades, S \ {x}))

(***************************************************************************)
(* C1  Stop precedence: whenever checkTradeOutcome starts a candle of the  *)
(* simulation window and that candle crosses the active stop (LONG: low <= *)
(* stop, SHORT: high >= stop), the step records the trade with exit price  *)
(* equal to the stop as it stood before the candle, exit time that         *)
(* candle's, and no TRAIL_UP/TRAIL_DOWN event carrying that candle's time, *)
(* also when the candle crosses the next trigger as well.                  *)
(***************************************************************************)
C1_CrossesStop ==
  /\ pc = "stop"
  /\ look <= MaxLookForwardCandles
  /\ entry.startIndex + look < NumCandles
  /\ LET c == candles[entry.startIndex + look]
     IN  \/ entry.side = "LONG"  /\ c.low * currentStopLoss.d <= currentStopLoss.n
         \/ entry.side = "SHORT" /\ c.high * currentStopLoss.d >= currentStopLoss.n

C1_ExitsAtStop ==
  /\ Len(matchingCandles') = Len(matchingCandles) + 1
  /\ LET m == matchingCandles'[Len(matchingCandles')]
         t == FormatTime(candles[entry.startIndex + look].openTime)
     IN  /\ m.exit.price = currentStopLoss
         /\ m.trade_result.final_stop_loss_price = currentStopLoss
         /\ m.exit.time = t
         /\ m.exit.candles_until_exit = look
         /\ \A x \in 1 .. Len(m.exit.trailing_stops) :
              IsTrail(m.exit.trailing_stops[x]) => m.exit.trailing_stops[x].time # t
         /\ Len(m.exit.trailing_stops) = Len(trailingHistory) + 1

C1_StopPrecedence == [][C1_CrossesStop => C1_ExitsAtStop]_vars

\* a trade with a non-zero ladder was closed by a candle that also crosses
\* the next trigger
C1_Witness ==
  /\ pc = "scan"
  /\ Len(matchingCandles) > 0
  /\ LET m == matchingCandles[Len(matchingCandles)]
         c == candles[ExitIndex(m)]
         n == m.trade_result.total_trails_before_exit
         levels == calculateTriggerLevels(m.entry.price, m.entry.side,
                                          m.entry.dynamicThreshold)
     IN  /\ m.dynamicThreshold.n > 0
         /\ n < MaxTriggerLevels
         /\ \/ m.entry.side = "LONG"  /\ RGe(R(c.high), levels[n + 1].trigger)
            \/ m.entry.side = "SHORT" /\ RLe(R(c.low), levels[n + 1].trigger)
         /\ m.exit.price = levels[n].stopLoss

(***************************************************************************)
(* C2  Abandoned trades are excluded: when checkTradeOutcome reaches the   *)
(* end of its window (more than maxLookForwardCandles candles after the    *)
(* entry candle, or past the last candle of the store) without a stop hit, *)
(* processCandle returns with matchingCandles, currentBalance and          *)
(* balanceHistory unchanged; the account changes only on a step whose      *)
(* candle lies inside the window and crosses the active stop.              *)
(***************************************************************************)
C2_WindowExhausted ==
  /\ pc = "stop"
  /\ \/ look > MaxLookForwardCandles
     \/ entry.startIndex + look >= NumCandles

C2_AbandonedExcluded ==
  [][ /\ C2_WindowExhausted =>
           /\ matchingCandles' = matchingCandles
           /\ currentBalance' = currentBalance
           /\ balanceHistory' = balanceHistory
           /\ pc' = "scan"
           /\ currentIndex' = currentIndex + 1
      /\ (\/ matchingCandles' # matchingCandles
          \/ currentBalance' # currentBalance
          \/ balanceHistory' # balanceHistory) =>
           /\ pc = "stop"
           /\ look \in 1 .. MaxLookForwardCandles
           /\ entry.startIndex + look < NumCandles
           /\ LET c == candles[entry.startIndex + look]
              IN  \/ entry.side = "LONG"  /\ RLe(R(c.low), currentStopLoss)
                  \/ entry.side = "SHORT" /\ RGe(R(c.high), currentStopLoss)
    ]_vars

\* processCandle has returned from a legend whose entry was resolved with a
\* non-zero threshold, whose horizon was exhausted inside the store, and
\* which left no trade
C2_Witness ==
  /\ pc = "scan"
  /\ legendCandle # None
  /\ legendCandle.index = currentIndex - 1
  /\ legendCandle.dynamicThreshold.n > 0
  /\ threshold_crossed # None
  /\ threshold_crossed.direction \in {"LONG", "SHORT"}
  /\ entry.startIndex + MaxLookForwardCandles < NumCandles
  /\ \A x \in 1 .. Len(matchingCandles) :
       matchingCandles[x].timestamp # legendCandle.timestamp
  /\ Len(balanceHistory) = Len(matchingCandles)

(***************************************************************************)
(* C3  Trades do not overlap in time: for any two recorded trades, the     *)
(* later-recorded trade's entry candle is not before the earlier-recorded  *)
(* trade's exit candle.                                                    *)
(***************************************************************************)
C3_NoOverlap ==
  \A a, b \in 1 .. Len(matchingCandles) :
    a < b => EntryIndex(matchingCandles[b]) >= ExitIndex(matchingCandles[a])

(***************************************************************************)
(* C4  No look-ahead balance: the balance read by calculateTradeSize when  *)
(* a recorded trade T was sized equals initialBalance plus the P&L of      *)
(* exactly the earlier-recorded trades whose exit candle is at or before   *)
(* T's entry candle.                                                       *)
(***************************************************************************)
C4_NoLookAheadBalance ==
  \A b \in 1 .. Len(matchingCandles) :
    LET T == matchingCandles[b]
        closed == { a \in 1 .. (b - 1) :
                      ExitIndex(matchingCandles[a]) <= EntryIndex(T) }
    IN  T.entry.sizedBalance = RAdd(R(InitialBalance), SumPnl(matchingCandles, closed))

(***************************************************************************)
(* C5  The balance history is in candle-time order: the exit-candle times  *)
(* of consecutive balanceHistory entries are non-decreasing.               *)
(***************************************************************************)
C5_HistoryInTimeOrder ==
  \A x \in 1 .. (Len(balanceHistory) - 1) :
    balanceHistory[x].timestamp <= balanceHistory[x + 1].timestamp

(***************************************************************************)
(* C6  The account balance is mutated exactly once per finalized trade: in *)
(* every reachable state currentBalance = initialBalance + the sum of the  *)
(* pnl (as computed by calculatePnL) of all recorded trades, balanceHistory*)
(* has as many entries as there are recorded trades, and the k-th trade's  *)
(* balance_after_trade is the balance of the k-th history entry.           *)
(***************************************************************************)
C6_BalanceOncePerTrade ==
  /\ currentBalance =
       RAdd(R(InitialBalance), SumPnl(matchingCandles, 1 .. Len(matchingCandles)))
  /\ Len(balanceHistory) = Len(matchingCandles)
  /\ \A x \in 1 .. Len(matchingCandles) :
       /\ matchingCandles[x].trade_result.balance_after_trade = balanceHistory[x].balance
       /\ matchingCandles[x].trade_result.balance_after_trade =
            RAdd(R(InitialBalance), SumPnl(matchingCandles, 1 .. x))
       /\ matchingCandles[x].pnl =
            IF matchingCandles[x].trade_result.side = "LONG"
            THEN RSub(matchingCandles[x].trade_result.final_stop_loss_price,
                      matchingCandles[x].trade_result.entry_price)
            ELSE RSub(matchingCandles[x].trade_result.entry_price,
                      matchingCandles[x].trade_result.final_stop_loss_price)

\* two trades are recorded, both with a pnl that is not a whole number of
\* cents, and the run is over
C6_Witness ==
  /\ pc = "done"
  /\ Len(matchingCandles) >= 2
  /\ matchingCandles[1].pnl # matchingCandles[1].trade_result.PNL
  /\ matchingCandles[2].pnl # matchingCandles[2].trade_result.PNL
  /\ currentBalance # R(InitialBalance)

C8_TrailsUpTo(t) ==
  Cardinality({ x \in 1 .. Len(trailingHistory) :
                  IsTrail(trailingHistory[x]) /\ trailingHistory[x].time <= t })

C8_Crossed(c, lv) ==
  \/ entry.side = "LONG"  /\ RGe(R(c.high), triggerLevels[lv].trigger)
  \/ entry.side = "SHORT" /\ RLe(R(c.low), triggerLevels[lv].trigger)

C8_MultiLevelPromotion ==
  pc \in {"stop", "trail"} =>
    LET total == Len(trailingHistory) - 1
    IN  /\ \A o \in 1 .. (look - 1) :
             LET c == candles[entry.startIndex + o]
                 t == FormatTime(c.openTime)
                 lo == C8_TrailsUpTo(t - 1)
                 hi == C8_TrailsUpTo(t)
             IN  /\ \A j \in (lo + 1) .. hi : C8_Crossed(c, j)
                 /\ hi = MaxTriggerLevels \/ ~C8_Crossed(c, hi + 1)
        /\ \A j \in 1 .. total :
             /\ IsTrail(trailingHistory[j + 1])
             /\ trailingHistory[j + 1].price = triggerLevels[j].stopLoss
             /\ trailingHistory[j].time <= trailingHistory[j + 1].time
        /\ currentStopLoss = triggerLevels[total].stopLoss
        /\ currentTriggerIndex = total + 1

\* one candle has promoted the stop over two levels of a non-zero ladder
\* and the simulation has moved on to the next candle
C8_Witness ==
  /\ pc = "stop"
  /\ look >= 2
  /\ entry.dynamicThreshold.n > 0
  /\ Len(trailingHistory) >= 3
  /\ trailingHistory[2].time = trailingHistory[3].time
  /\ trailingHistory[2].price # trailingHistory[3].price
  /\ currentStopLoss = triggerLevels[2].stopLoss

(***************************************************************************)
(* C9  Entry resolution: the result of checkThresholdCrossing for the      *)
(* legend at index i is the entry at the first candle among i+1..i+H       *)
(* inside the store whose high >= upward level or whose low <= downward    *)
(* level, the levels being close*(1 +/- dynamicThreshold/100); the entry   *)
(* price is the crossed level itself, candles_until_cross is the candle's  *)
(* offset from i and the entry time is the candle's; if no candle of the   *)
(* window crosses, the result is NONE.                                     *)
(***************************************************************************)
C9_Up == RMul(R(candles[legendCandle.index].close),
              RAdd(R(1), RDiv(legendCandle.dynamicThreshold, R(100))))
C9_Down == RMul(R(candles[legendCandle.index].close),
                RSub(R(1), RDiv(legendCandle.dynamicThreshold, R(100))))
C9_Crosses(x) ==
  \/ RGe(R(candles[x].high), C9_Up)
  \/ RLe(R(candles[x].low), C9_Down)
C9_Window ==
  { x \in (legendCandle.index + 1) .. (legendCandle.index + MaxLookForwardCandles) :
      x < NumCandles }

C9_EntryResolution ==
  threshold_crossed # None =>
    IF threshold_crossed.direction = "NONE"
    THEN /\ \A x \in C9_Window : ~C9_Crosses(x)
         /\ threshold_crossed.candles_until_cross = 0
    ELSE LET x == legendCandle.index + threshold_crossed.candles_until_cross
         IN  /\ x \in C9_Window
             /\ C9_Crosses(x)
             /\ \A y \in C9_Window : y < x => ~C9_Crosses(y)
             /\ threshold_crossed.crossed_at = FormatTime(candles[x].openTime)
             /\ threshold_crossed.direction = "LONG" =>
                  /\ threshold_crossed.entry_price = C9_Up
                  /\ RGe(R(candles[x].high), C9_Up)
             /\ threshold_crossed.direction = "SHORT" =>
                  /\ threshold_crossed.entry_price = C9_Down
                  /\ RLe(R(candles[x].low), C9_Down)
             /\ threshold_crossed.direction \in {"LONG", "SHORT"}

\* an entry found at the last candle of the horizon of a legend with a
\* non-zero threshold, at a level that is no price of the crossing candle
C9_Witness ==
  /\ threshold_crossed # None
  /\ threshold_crossed.direction = "SHORT"
  /\ threshold_crossed.candles_until_cross = MaxLookForwardCandles
  /\ legendCandle.dynamicThreshold.n > 0
  /\ LET c == candles[legendCandle.index + threshold_crossed.candles_until_cross]
     IN  threshold_crossed.entry_price \notin {R(c.open), R(c.high), R(c.low), R(c.close)}

(***************************************************************************)
(* C10  Entry tie-break: when the first crossing candle has both           *)
(* high >= upward level and low <= downward level, checkThresholdCrossing  *)
(* returns LONG with the upward level as entry price, never SHORT.         *)
(***************************************************************************)
C10_BothCrossed ==
  /\ threshold_crossed # None
  /\ threshold_crossed.direction # "NONE"
  /\ LET c == candles[legendCandle.index + threshold_crossed.candles_until_cross]
     IN  /\ RGe(R(c.high), legendCandle.upward_movementThreshold)
         /\ RLe(R(c.low), legendCandle.downward_movementThreshold)

C10_LongPriority ==
  C10_BothCrossed =>
    /\ threshold_crossed.direction = "LONG"
    /\ threshold_crossed.entry_price = legendCandle.upward_movementThreshold

\* both levels of a legend with a non-zero threshold crossed by one candle
C10_Witness ==
  /\ C10_BothCrossed
  /\ legendCandle.dynamicThreshold.n > 0
  /\ RLt(legendCandle.downward_movementThreshold, legendCandle.upward_movementThreshold)
  /\ threshold_crossed.direction = "LONG"

(***************************************************************************)
(* C11  Legend detection rule: findMatchingCandles examines no index below *)
(* N+10, and processCandle treats the candle at index i as a legend if and *)
(* only if its movement |close-open|/open*100 is greater than or equal to  *)
(* k times the mean movement of exactly the N candles at i-N .. i-1;       *)
(* equality qualifies.                                                     *)
(***************************************************************************)
C11_Mov(x) ==
  RDiv(R(100 * Abs(candles[x].close - candles[x].open)), R(candles[x].open))

RECURSIVE C11_SumMov(_, _)
C11_SumMov(lo, hi) ==
  IF lo > hi THEN R(0) ELSE RAdd(C11_Mov(hi), C11_SumMov(lo, hi - 1))

\* movement(i) >= k * (sum of the N movements) / N
C11_Qualifies(i) ==
  RGe(RMul(R(Lookback), C11_Mov(i)),
      RMul(R(ThresholdMultiplier), C11_SumMov(i - Lookback, i - 1)))

C12_ZeroThreshold ==
  /\ (legendCandle # None /\ legendCandle.dynamicThreshold.n = 0) =>
       legendCandle.currentDiff.n > 0
  /\ \A x \in 1 .. Len(matchingCandles) :
       matchingCandles[x].dynamicThreshold.n = 0 => matchingCandles[x].movement.n > 0

(***************************************************************************)
(* C13  No look-ahead in a trade's references: for every recorded trade,   *)
(* legend candle index < entry candle index < exit candle index; the entry *)
(* price is the legend candle's close moved by the legend's threshold      *)
(* (up for LONG, down for SHORT); the exit price is the stop that was      *)
(* active when the exit candle was reached, which that candle crosses, the *)
(* exit time is the exit candle's, and every trail happened on a candle    *)
(* after the entry candle and before the exit candle.                      *)
(***************************************************************************)
C13_NoLookAheadReferences ==
  \A x \in 1 .. Len(matchingCandles) :
    LET m == matchingCandles[x]
        L == LegendIndex(m)
        E == EntryIndex(m)
        X == ExitIndex(m)
        stops == m.exit.trailing_stops
        active == stops[Len(stops) - 1].price
        move == RDiv(RMul(R(candles[L].close), m.dynamicThreshold), R(100))
    IN  /\ L < E
        /\ E < X
        /\ X < NumCandles
        /\ E = L + m.threshold_crossed.candles_until_cross
        /\ X = E + m.exit.candles_until_exit
        /\ m.trade_result.entry_price =
             IF m.trade_result.side = "LONG" THEN RAdd(R(candles[L].close), move)
                                             ELSE RSub(R(candles[L].close), move)
        /\ m.trade_result.final_stop_loss_price = active
        /\ m.exit.price = active
        /\ m.trade_result.exit_time = FormatTime(candles[X].openTime)
        /\ IF m.trade_result.side = "LONG" THEN RLe(R(candles[X].low), active)
                                           ELSE RGe(R(candles[X].high), active)
        /\ \A j \in 1 .. Len(stops) :
             IsTrail(stops[j]) =>
               /\ IndexOfTime(stops[j].time) > E
               /\ IndexOfTime(stops[j].time) < X

\* a recorded trade of a legend with a non-zero threshold, entered later
\* than the candle after the legend, trailed, and closed later than the
\* candle after the entry
C13_Witness ==
  \E x \in 1 .. Len(matchingCandles) :
    LET m == matchingCandles[x]
    IN  /\ m.dynamicThreshold.n > 0
        /\ EntryIndex(m) > LegendIndex(m) + 1
        /\ ExitIndex(m) > EntryIndex(m) + 1
        /\ m.trade_result.total_trails_before_exit >= 1
        /\ m.exit.price \notin { R(candles[ExitIndex(m)].low),
                                 R(candles[ExitIndex(m)].high) }

(***************************************************************************)
(* C14  Realized P&L by trail count: for every recorded trade with k trail *)
(* promotions and delta = entryPrice*dynamicThreshold/100, the exit price  *)
(* is the stop of level k, entry + (k-1)*delta for a LONG and              *)
(* entry - (k-1)*delta for a SHORT, and pnl = (k-1)*delta for both sides:  *)
(* -delta at the initial stop, 0 after exactly one promotion.              *)
(***************************************************************************)
C14_Delta(m) ==
  RDiv(RMul(m.trade_result.entry_price, m.dynamicThreshold), R(100))

C14_TrailCount(m) ==
  Cardinality({ j \in 1 .. Len(m.exit.trailing_stops) : IsTrail(m.exit.trailing_stops[j]) })

C15_ProfitPerTrigger ==
  \A x \in 1 .. Len(matchingCandles) :
    LET m == matchingCandles[x]
        k == m.trade_result.total_trails_before_exit
        delta == RDiv(RMul(m.trade_result.entry_price, m.dynamicThreshold), R(100))
    IN  m.pnl = IF k >= 1 THEN RMul(R(k), delta) ELSE RNeg(delta)

(***************************************************************************)
(* C16  Position sizing is informational only: in every run, whatever its  *)
(* initialBalance and positionSizePercent, the trades recorded so far      *)
(* (side, entry price and time, exit price and time, pnl) are the trades   *)
(* computed from the candle store, the lookback and the trade              *)
(* configuration alone, and the balance is initialBalance plus the sum of  *)
(* those trades' pnl; so two runs over the same store that differ only in  *)
(* initialBalance and positionSizePercent record the same trades, and      *)
(* their balances differ by the difference of the initial balances.        *)
(***************************************************************************)
\* the offset in 1..H of the first candle after i that reaches up or down,
\* 0 if there is none
RECURSIVE C16_FirstCross(_, _, _, _)
C16_FirstCross(i, up, down, o) ==
  IF o > MaxLookForwardCandles \/ i + o >= NumCandles THEN 0
  ELSE IF RGe(R(candles[i + o].high), up) \/ RLe(R(candles[i + o].low), down)
       THEN o
       ELSE C16_FirstCross(i, up, down, o + 1)

\* the stop after k promotions
C16_Stop(side, P, delta, k) ==
  IF side = "LONG" THEN RAdd(P, RMul(R(k - 1), delta))
                   ELSE RSub(P, RMul(R(k - 1), delta))

\* the number of promotions after candle c, k having been made before it
RECURSIVE C16_Promote(_, _, _, _, _)
C16_Promote(side, c, P, delta, k) ==
  IF k >= MaxTriggerLevels THEN k
  ELSE IF \/ side = "LONG"  /\ RGe(R(c.high), RAdd(P, RMul(R(k + 1), delta)))
          \/ side = "SHORT" /\ RLe(R(c.low), RSub(P, RMul(R(k + 1), delta)))
       THEN C16_Promote(side, c, P, delta, k + 1)
       ELSE k

\* the exit of a trade entered at candle s, None if the window is exhausted
RECURSIVE C16_Exit(_, _, _, _, _, _)
C16_Exit(s, side, P, delta, k, o) ==
  IF o > MaxLookForwardCandles \/ s + o >= NumCandles THEN None
  ELSE LET c == candles[s + o]
           stop == C16_Stop(side, P, delta, k)
       IN  IF \/ side = "LONG"  /\ RLe(R(c.low), stop)
              \/ side = "SHORT" /\ RGe(R(c.high), stop)
           THEN [ kind |-> "exit", price |-> stop, index |-> s + o ]
           ELSE C16_Exit(s, side, P, delta, C16_Promote(side, c, P, delta, k), o + 1)

\* the trade of the candle at index i, None if it has none
C16_TradeOf(i) ==
  IF ~C11_Qualifies(i) THEN None
  ELSE LET thr == RDiv(RMul(R(ThresholdMultiplier), C11_SumMov(i - Lookback, i - 1)),
                       R(Lookback))
           move == RDiv(RMul(R(candles[i].close), thr), R(100))
           up == RAdd(R(candles[i].close), move)
           down == RSub(R(candles[i].close), move)
           o == C16_FirstCross(i, up, down, 1)
       IN  IF o = 0 THEN None
           ELSE LET side == IF RGe(R(candles[i + o].high), up) THEN "LONG" ELSE "SHORT"
                    P == IF side = "LONG" THEN up ELSE down
                    x == C16_Exit(i + o, side, P, RDiv(RMul(P, thr), R(100)), 0, 1)
                IN  IF x = None THEN None
                    ELSE [ kind |-> "trade",
                           side |-> side,
                           entry_price |-> P,
                           entry_time |-> FormatTime(candles[i + o].openTime),
                           exit_price |-> x.price,
                           exit_time |-> FormatTime(candles[x.index].openTime),
                           pnl |-> IF side = "LONG" THEN RSub(x.price, P)
                                                    ELSE RSub(P, x.price) ]

\* the trades of the candles lo .. hi, in order
RECURSIVE C16_Trades(_, _)
C16_Trades(lo, hi) ==
  IF lo > hi THEN << >>
  ELSE LET t == C16_TradeOf(hi)
       IN  IF t = None THEN C16_Trades(lo, hi - 1)
                       ELSE Append(C16_Trades(lo, hi - 1), t)

RECURSIVE C16_Gain(_, _)
C16_Gain(trades, x) ==
  IF x = 0 THEN R(0) ELSE RAdd(trades[x].pnl, C16_Gain(trades, x - 1))

C16_SizingInformational ==
  pc \in {"scan", "done"} =>
    LET ref == C16_Trades(Lookback + 10, currentIndex - 1)
    IN  /\ Len(matchingCandles) = Len(ref)
        /\ \A x \in 1 .. Len(ref) :
             LET r == matchingCandles[x].trade_result
             IN  /\ r.side = ref[x].side
                 /\ r.entry_price = ref[x].entry_price
                 /\ r.entry_time = ref[x].entry_time
                 /\ r.final_stop_loss_price = ref[x].exit_price
                 /\ r.exit_time = ref[x].exit_time
                 /\ r.PNL = ToFixed2(ref[x].pnl)
                 /\ r.balance_after_trade =
                      RAdd(R(initialBalance), C16_Gain(ref, x))
        /\ currentBalance = RAdd(R(initialBalance), C16_Gain(ref, Len(ref)))

\* a finished run that is not the default configuration has recorded two
\* trades with a non-zero pnl, sized from different balances
C16_Witness ==
  /\ pc = "done"
  /\ initialBalance # InitialBalance
  /\ positionSizePercent # PositionSizePercent
  /\ Len(matchingCandles) >= 2
  /\ matchingCandles[1].pnl.n # 0
  /\ matchingCandles[2].pnl.n # 0
  /\ matchingCandles[1].entry.sizedBalance # matchingCandles[2].entry.sizedBalance
  /\ matchingCandles[1].entry.size.n > 0

(***************************************************************************)
(* C17  Detection always resumes at the next index: findMatchingCandles    *)
(* examines the candle at its index i and nothing else, i moves only when  *)
(* processCandle returns and then by exactly one, whether the candle was   *)
(* no legend, resolved to NONE, was abandoned or produced a trade, and the *)
(* results are saved only when i has reached the end of the store; each    *)
(* legend leads to at most one entry attempt and at most one recorded      *)
(* trade.                                                                  *)
(***************************************************************************)
C17_SequentialScan ==
  [][ /\ pc' = "scan" => currentIndex' = currentIndex + 1
      /\ pc' # "scan" => currentIndex' = currentIndex
      /\ (pc = "scan" /\ pc' # "done") =>
           /\ currentIndex >= Lookback + 10
           /\ currentIndex < NumCandles
           /\ legendCandle' = None \/ legendCandle'.index = currentIndex
      /\ pc' = "done" => (pc = "scan" /\ currentIndex >= NumCandles)
      /\ pc' = "cross" => pc \in {"scan", "cross"}
      /\ pc' = "stop" => pc \in {"cross", "trail"}
      /\ pc' = "trail" => pc \in {"stop", "trail"}
      /\ pc # "scan" => legendCandle' = legendCandle
      /\ pc \in {"stop", "trail"} => /\ threshold_crossed' = threshold_crossed
                                     /\ entry' = entry
      /\ matchingCandles' # matchingCandles =>
           /\ pc' = "scan"
           /\ matchingCandles' =
                Append(matchingCandles, matchingCandles'[Len(matchingCandles')])
           /\ LegendIndex(matchingCandles'[Len(matchingCandles')]) = currentIndex
      /\ \A a, b \in 1 .. Len(matchingCandles') :
           a < b => LegendIndex(matchingCandles'[a]) < LegendIndex(matchingCandles'[b])
    ]_vars

\* the scan is at the index after a legend whose recorded trade was closed
\* further ahead, candles still to be examined
C17_Witness ==
  /\ pc = "scan"
  /\ currentIndex < NumCandles
  /\ Len(matchingCandles) > 0
  /\ LegendIndex(matchingCandles[Len(matchingCandles)]) = currentIndex - 1
  /\ ExitIndex(matchingCandles[Len(matchingCandles)]) > currentIndex
  /\ matchingCandles[Len(matchingCandles)].dynamicThreshold.n > 0

(***************************************************************************)
(* C18  Exit record and trigger-log shape: for every recorded trade the    *)
(* exit price is the stop that was active (not the hitting candle's low,   *)
(* high or close unless they coincide), the exit time is the hitting       *)
(* candle's open time, and the trailing-stop log is exactly one INITIAL    *)
(* event, then the trail events in ordinal order, the j-th with price      *)
(* stop_j, then exactly one HIT event as the last entry carrying the exit  *)
(* price and time; a recorded trade never changes afterwards.              *)
(***************************************************************************)
C18_LogShape(m) ==
  LET log == m.exit.trailing_stops
      n == Len(log)
      P == m.trade_result.entry_price
      delta == RDiv(RMul(P, m.dynamicThreshold), R(100))
      long == m.trade_result.side = "LONG"
      stop(j) == IF long THEN RAdd(P, RMul(R(j - 1), delta))
                         ELSE RSub(P, RMul(R(j - 1), delta))
  IN  /\ n >= 2
      /\ log[1].type = "INITIAL"
      /\ log[1].price = stop(0)
      /\ log[1].time = m.trade_result.entry_time
      /\ \A j \in 2 .. (n - 1) :
           /\ log[j].type = IF long THEN "TRAIL_UP" ELSE "TRAIL_DOWN"
           /\ log[j].price = stop(j - 1)
           /\ log[j].time >= log[j - 1].time
           /\ m.trade_result.trails[j - 1].trail_number = j - 1
           /\ m.trade_result.trails[j - 1].new_stop_loss = stop(j - 1)
           /\ m.trade_result.trails[j - 1].old_stop_loss = stop(j - 2)
      /\ Len(m.trade_result.trails) = n - 2
      /\ log[n].type = "HIT"
      /\ log[n].price = log[n - 1].price
      /\ log[n].time = m.exit.time
      /\ m.exit.price = log[n - 1].price
      /\ m.trade_result.final_stop_loss_price = log[n - 1].price
      /\ m.exit.time = FormatTime(candles[ExitIndex(m)].openTime)
      /\ m.trade_result.exit_time = m.exit.time
      /\ ExitIndex(m) = EntryIndex(m) + m.exit.candles_until_exit

C18_ExitRecord ==
  [][ /\ \A x \in 1 .. Len(matchingCandles') : C18_LogShape(matchingCandles'[x])
      /\ \A x \in 1 .. Len(matchingCandles) :
           /\ x <= Len(matchingCandles')
           /\ matchingCandles'[x] = matchingCandles[x]
      /\ (pc = "stop" /\ pc' = "scan" /\ matchingCandles' # matchingCandles) =>
           /\ trailingHistory' = matchingCandles'[Len(matchingCandles')].exit.trailing_stops
           /\ matchingCandles'[Len(matchingCandles')].exit.price = currentStopLoss
      /\ (trailingHistory # << >> /\ trailingHistory[Len(trailingHistory)].type = "HIT") =>
           \/ trailingHistory' = trailingHistory
           \/ (Len(trailingHistory') = 1 /\ trailingHistory'[1].type = "INITIAL")
    ]_vars

\* a trade promoted twice was closed by a candle that went through the
\* stop, and a later trade has been recorded after it
C18_Witness ==
  /\ Len(matchingCandles) >= 2
  /\ LET m == matchingCandles[1]
         c == candles[ExitIndex(m)]
     IN  /\ Len(m.exit.trailing_stops) = 4
         /\ m.dynamicThreshold.n > 0
         /\ m.exit.price \notin {R(c.low), R(c.high), R(c.close), R(c.open)}

(***************************************************************************)
(* C19  Degenerate input aborts the run: if the candle store is empty, or  *)
(* lookbackCandles is larger than the number of loaded candles, the run    *)
(* does not complete and no result is saved.                               *)
(***************************************************************************)
C19_DegenerateAborts ==
  (NumCandles = 0 \/ Lookback > NumCandles) => pc # "done"

(***************************************************************************)
(* C20  Threshold monotonicity: for the candle store of the run and its    *)
(* lookback N, if k1 <= k2 are positive threshold multipliers, every       *)
(* candle index that is a legend under k2 is a legend under k1, so there   *)
(* are no more legends under k2 than under k1; in particular a legend the *)
(* run has just detected is a legend under every smaller multiplier.       *)
(***************************************************************************)
C20_Multipliers == 1 .. (ThresholdMultiplier + 2)

\* the pairs of a multiplier and an examined index that is a legend under
\* it; << 0, 0 >> stands for the pairs that are not
C20_LegendPairs ==
  { IF LegendUnder(p[1], candles, p[2]) THEN p ELSE << 0, 0 >> :
      p \in C20_Multipliers \X ((Lookback + 10) .. (NumCandles - 1)) }

C20_Legends(k) ==
  { i \in (Lookback + 10) .. (NumCandles - 1) : LegendUnder(k, candles, i) }

\* the store does not change during a run: the comparison over the whole
\* store is made once, when the run is over
C20_ThresholdMonotone ==
  /\ pc = "done" =>
       \A pairs \in { C20_LegendPairs } :
         LET legends(k) == { i \in (Lookback + 10) .. (NumCandles - 1) :
                               << k, i >> \in pairs }
         IN  \A k1, k2 \in C20_Multipliers :
               k1 <= k2 =>
                 /\ legends(k2) \subseteq legends(k1)
                 /\ Cardinality(legends(k2)) <= Cardinality(legends(k1))
  /\ (pc = "cross" /\ look = 1) =>
       \A k1 \in C20_Multipliers :
         k1 <= ThresholdMultiplier => LegendUnder(k1, candles, legendCandle.index)

\* the run has detected a legend that a larger multiplier loses, in a store
\* where another candle stays a legend of a non-zero average under it
C20_Witness ==
  /\ pc = "done"
  /\ legendCandle # None
  /\ legendCandle.index \in C20_Legends(ThresholdMultiplier)
  /\ legendCandle.index \notin C20_Legends(ThresholdMultiplier + 1)
  /\ \E j \in C20_Legends(ThresholdMultiplier + 1) : AverageDiff(candles, j).n > 0

(***************************************************************************)
(* C24: for one legend candle with close c and threshold t, the initial    *)
(* stop-loss of the LONG entry (entry c*(1+t/100), stop entry minus        *)
(* entry*t/100) equals the initial stop-loss of the SHORT entry (entry     *)
(* c*(1-t/100), stop entry plus entry*t/100); the stop the simulator       *)
(* starts with is that common value, c*(1 - (t/100)^2), whichever side     *)
(* was entered.  Prices are exact rationals here.                          *)
(***************************************************************************)
C24_InitialStop(side) ==
  calculateTriggerLevels(
      IF side = "LONG" THEN legendCandle.upward_movementThreshold
                       ELSE legendCandle.downward_movementThreshold,
      side, legendCandle.dynamicThreshold)[0].stopLoss

C25_StoreReadOnly == [][candles' = candles]_vars

\* a run that recorded trades has ended and the store still holds every
\* candle at its place
C25_Witness ==
  /\ pc = "done"
  /\ Len(matchingCandles) >= 2
  /\ DOMAIN candles = Indices
  /\ \A x \in Indices : candles[x].openTime = OpenTime(x)
  /\ \E x \in Indices : candles[x].low < candles[x].open
  /\ \E x \in Indices : candles[x].high > candles[x].close

(***************************************************************************)
(* C26: the entry (crossing) candle is never evaluated by the trailing-    *)
(* stop simulator.  The step that opens a trade records nothing, leaves    *)
(* the log at its INITIAL event and the active stop at the initial stop,   *)
(* and hands the candle immediately after the crossing candle to the       *)
(* first stop-hit and trigger checks, even when the crossing candle's own  *)
(* range reaches the initial stop or trigger 1; every candle simulated,    *)
(* every promotion and every exit lies after the crossing candle.          *)
(***************************************************************************)
C26_AfterEntry(m) ==
  /\ m.exit.candles_until_exit >= 1
  /\ ExitIndex(m) > EntryIndex(m)
  /\ \A k \in 1 .. Len(m.trade_result.trails) :
       IndexOfTime(m.trade_result.trails[k].time) > EntryIndex(m)

C26_EntryCandleNotSimulated ==
  [][ /\ (pc = "cross" /\ pc' = "stop") =>
           /\ look' = 1
           /\ entry'.startIndex = currentIndex + look
           /\ UNCHANGED account
           /\ Len(trailingHistory') = 1
           /\ trailingHistory'[1].type = "INITIAL"
           /\ currentTriggerIndex' = 1
           /\ currentStopLoss' = triggerLevels'[0].stopLoss
      /\ pc' \in {"stop", "trail"} => look' >= 1
      /\ matchingCandles' # matchingCandles =>
           C26_AfterEntry(matchingCandles'[Len(matchingCandles')])
    ]_vars

\* a trade has just been opened on a candle whose own range reaches both
\* the initial stop and trigger 1, and it is open with no promotion
C26_Witness ==
  /\ pc = "stop"
  /\ look = 1
  /\ RGt(entry.dynamicThreshold, R(0))
  /\ StopHit(entry.side, candles[entry.startIndex], currentStopLoss)
  /\ TriggerCrossed(entry.side, candles[entry.startIndex], triggerLevels[1])
  /\ Len(trailingHistory) = 1
  /\ currentTriggerIndex = 1

(***************************************************************************)
(* C27: bounded scan windows.  For every recorded trade candles_until_cross*)
(* is in 1..H and candles_until_exit is in 1..H (H = maxLookForwardCandles)*)
(* so the exit candle's index is at most the legend's index + 2H and never *)
(* beyond the last candle of the store; the same holds of the trade being  *)
(* simulated and of the candle under simulation.                           *)
(***************************************************************************)
C27_Bounded(m) ==
  /\ m.threshold_crossed.candles_until_cross \in 1 .. MaxLookForwardCandles
  /\ m.exit.candles_until_exit \in 1 .. MaxLookForwardCandles
  /\ EntryIndex(m) = LegendIndex(m) + m.threshold_crossed.candles_until_cross
  /\ ExitIndex(m) = EntryIndex(m) + m.exit.candles_until_exit
  /\ ExitIndex(m) <= LegendIndex(m) + 2 * MaxLookForwardCandles
  /\ ExitIndex(m) <= NumCandles - 1

C27_BoundedWindows ==
  /\ \A k \in 1 .. Len(matchingCandles) : C27_Bounded(matchingCandles[k])
  /\ pc \in {"stop", "trail"} =>
       /\ threshold_crossed.candles_until_cross \in 1 .. MaxLookForwardCandles
       /\ entry.startIndex = currentIndex + threshold_crossed.candles_until_cross
       /\ entry.startIndex <= NumCandles - 1
  /\ pc = "trail" =>
       /\ look \in 1 .. MaxLookForwardCandles
       /\ entry.startIndex + look <= NumCandles - 1

\* a trade that crossed on the last candle of the crossing window and left
\* on the last candle of the store
C27_Witness ==
  /\ Len(matchingCandles) >= 1
  /\ LET m == matchingCandles[Len(matchingCandles)]
     IN  /\ m.threshold_crossed.candles_until_cross = MaxLookForwardCandles
         /\ ExitIndex(m) = NumCandles - 1

(***************************************************************************)
(* C28: the active stop only moves in the favourable direction.  At every  *)
(* step of checkTradeOutcome the active stop is the stopLoss of ladder     *)
(* level currentTriggerIndex - 1; while a trade is simulated the stop of a *)
(* LONG never decreases and the stop of a SHORT never increases, and       *)
(* currentTriggerIndex only grows, by exactly one per recorded promotion.  *)
(***************************************************************************)
C28_StopAtLevel ==
  pc \in {"stop", "trail"} =>
    /\ currentTriggerIndex - 1 \in DOMAIN triggerLevels
    /\ currentStopLoss = triggerLevels[currentTriggerIndex - 1].stopLoss
    /\ Len(trailingHistory) = currentTriggerIndex

C28_StopMovesFavourably ==
  [][ /\ C28_StopAtLevel
      /\ C28_StopAtLevel'
      /\ (pc \in {"stop", "trail"} /\ pc' \in {"stop", "trail"}) =>
           /\ entry' = entry
           /\ triggerLevels' = triggerLevels
           /\ entry.side = "LONG"  => RGe(currentStopLoss', currentStopLoss)
           /\ entry.side = "SHORT" => RLe(currentStopLoss', currentStopLoss)
           /\ currentTriggerIndex' - currentTriggerIndex
                = Len(trailingHistory') - Len(trailingHistory)
           /\ currentTriggerIndex' - currentTriggerIndex \in {0, 1}
           /\ currentTriggerIndex' = currentTriggerIndex + 1 =>
                /\ IsTrail(trailingHistory'[Len(trailingHistory')])
                /\ trailingHistory'[Len(trailingHistory')].price = currentStopLoss'
    ]_vars

\* a SHORT whose stop has been promoted twice and now lies strictly below
\* its initial stop
C28_Witness ==
  /\ pc \in {"stop", "trail"}
  /\ entry.side = "SHORT"
  /\ currentTriggerIndex = 3
  /\ RLt(currentStopLoss, trailingHistory[2].price)
  /\ RLt(trailingHistory[2].price, trailingHistory[1].price)

(***************************************************************************)
(* C29: at most M promotions per trade, M = maxTriggerLevels.  A trade     *)
(* records at most M trail events; once all M triggers are crossed the     *)
(* active stop stays at stop_M until it is hit or the trade is abandoned;  *)
(* with M = 0 a trade never promotes and can only exit at its initial      *)
(* stop.                                                                   *)
(***************************************************************************)
C29_Recorded(m) ==
  /\ Len(m.trade_result.trails) <= maxTriggerLevels
  /\ m.trade_result.total_trails_before_exit <= maxTriggerLevels
  /\ Len(m.trade_result.trails) = maxTriggerLevels =>
       m.exit.price = m.exit.trailing_stops[maxTriggerLevels + 1].price
  /\ maxTriggerLevels = 0 =>
       /\ m.trade_result.trails = << >>
       /\ m.exit.price = m.trade_result.initial_stop
       /\ m.exit.price =
            calculateTriggerLevels(m.entry.price, m.entry.side,
                                   m.entry.dynamicThreshold)[0].stopLoss

C29_AtMostMPromotions ==
  [][ /\ pc \in {"stop", "trail"} =>
           /\ DOMAIN triggerLevels = 0 .. maxTriggerLevels
           /\ currentTriggerIndex \in 1 .. (maxTriggerLevels + 1)
           /\ Len(trailingHistory) - 1 <= maxTriggerLevels
      /\ ( /\ pc \in {"stop", "trail"}
           /\ pc' \in {"stop", "trail"}
           /\ currentTriggerIndex = maxTriggerLevels + 1 ) =>
           /\ currentStopLoss = triggerLevels[maxTriggerLevels].stopLoss
           /\ currentStopLoss' = currentStopLoss
           /\ currentTriggerIndex' = currentTriggerIndex
           /\ trailingHistory' = trailingHistory
      /\ matchingCandles' # matchingCandles =>
           C29_Recorded(matchingCandles'[Len(matchingCandles')])
    ]_vars

\* no trigger level is configured and a trade has left at its initial stop
\* after a candle that went beyond what would have been trigger 1
C29_Witness ==
  /\ maxTriggerLevels = 0
  /\ Len(matchingCandles) >= 1
  /\ LET m == matchingCandles[Len(matchingCandles)]
         tv == RMul(m.entry.price, RDiv(m.entry.dynamicThreshold, R(100)))
     IN  /\ m.exit.candles_until_exit >= 2
         /\ RGt(tv, R(0))
         /\ TriggerCrossed(m.entry.side, candles[EntryIndex(m) + 1],
                           TriggerLevel(m.entry.price, m.entry.side, tv, 1))
         /\ m.exit.price = m.trade_result.initial_stop

(***************************************************************************)
(* C30: a promoting candle never exits the trade.  A step of the trigger   *)
(* loop records nothing; after a promotion the trade stays open on the     *)
(* same candle even if that candle's low (LONG) or high (SHORT) is already *)
(* beyond the new stop, and the next stop test is on the following candle, *)
(* so a recorded trade leaves strictly after its last promotion.           *)
(***************************************************************************)
C30_LastTrailBeforeExit(m) ==
  LET trails == m.trade_result.trails
  IN  trails # << >> =>
        /\ IndexOfTime(trails[Len(trails)].time) < ExitIndex(m)
        /\ IndexOfTime(trails[Len(trails)].time) >= EntryIndex(m) + 1

C30_PromotingCandleStaysOpen ==
  [][ /\ pc = "trail" =>
           /\ UNCHANGED account
           /\ entry' = entry
           /\ pc' \in {"trail", "stop"}
           /\ pc' = "trail" => /\ look' = look
                               /\ Len(trailingHistory') = Len(trailingHistory) + 1
           /\ pc' = "stop"  => /\ look' = look + 1
                               /\ trailingHistory' = trailingHistory
      /\ matchingCandles' # matchingCandles =>
           /\ pc = "stop"
           /\ C30_LastTrailBeforeExit(matchingCandles'[Len(matchingCandles')])
    ]_vars

\* the candle under simulation has just promoted the stop, its range is
\* already beyond the new stop, and the trade is still open
C30_Witness ==
  /\ pc = "trail"
  /\ Len(trailingHistory) >= 2
  /\ trailingHistory[Len(trailingHistory)].time = FormatTime(SimCandle.openTime)
  /\ trailingHistory[Len(trailingHistory)].price = currentStopLoss
  /\ StopHit(entry.side, SimCandle, currentStopLoss)
  /\ ~StopHit(entry.side, SimCandle, trailingHistory[1].price)

(***************************************************************************)
(* C21: determinism.  A second run of findMatchingCandles on the same      *)
(* candle store and configuration produces the trade list of the first     *)
(* run (order, sides, entry and exit prices and times, pnl, trigger logs,  *)
(* trade numbers) and the same balance history: while it runs, what it has *)
(* recorded is a prefix of what the first run recorded, and at its end the *)
(* two are equal.  Every choice a step could make between two successors   *)
(* is a choice the two runs could make differently.                        *)
(***************************************************************************)
C21_First == completedRuns[1]

C22_ParallelRunsIndependent ==
  \A p \in Pairs :
    /\ backtestTask[p] # "rejected"
    /\ p \in completedBacktests => p \in files

\* the same statement for the batches that run one task at a time
C22_AloneNeverFails ==
  concurrencyLimit = 1 => \A p \in Pairs : backtestTask[p] # "rejected"

(***************************************************************************)
(* C23: bounded worker pool.  With concurrencyLimit >= 1, at most          *)
(* concurrencyLimit download tasks, and later at most concurrencyLimit     *)
(* backtest tasks, are in flight at any time; a task is started only when  *)
(* every task started before it in its phase is fulfilled, backtests only  *)
(* when every download is; and a pair is started at most once per phase.   *)
(***************************************************************************)
C23_StartedDownload(p) == downloadTask[p] = "idle" /\ downloadTask'[p] # "idle"
C23_StartedBacktest(p) == backtestTask[p] = "idle" /\ backtestTask'[p] # "idle"

C23_BoundedPool ==
  [][ /\ Cardinality(InFlight) <= concurrencyLimit
      /\ Cardinality(InFlight') <= concurrencyLimit
      /\ InFlight' \subseteq batch'
      /\ \A p \in Pairs :
           /\ C23_StartedDownload(p) =>
                /\ downloadTask'[p] = "fetching"
                /\ \A q \in Pairs : downloadTask[q] \in {"idle", "fulfilled"}
           /\ C23_StartedBacktest(p) =>
                /\ backtestTask'[p] = "readdir"
                /\ \A q \in Pairs : downloadTask[q] = "fulfilled"
                /\ \A q \in Pairs : backtestTask[q] \in {"idle", "fulfilled"}
           /\ downloadTask'[p] = "fetching" =>
                downloadTask[p] \in {"idle", "fetching"}
           /\ backtestTask'[p] = "readdir" =>
                backtestTask[p] \in {"idle", "readdir"}
           /\ downloadTask[p] # "idle" => downloadTask'[p] # "idle"
           /\ backtestTask[p] # "idle" => backtestTask'[p] # "idle"
    ]_vars

\* the second backtest batch runs with as many tasks in flight as the limit
\* allows, more than one, after the first batch was fulfilled
C23_Witness ==
  /\ batchPc = "backtest"
  /\ concurrencyLimit >= 2
  /\ Cardinality(InFlight) = concurrencyLimit
  /\ \E q \in Pairs : backtestTask[q] = "fulfilled"

(***************************************************************************)
(* C31: a run terminates.  For every store and configuration with          *)
(* maxLookForwardCandles >= 1 and maxTriggerLevels >= 0 findMatchingCandles*)
(* eventually reaches the result-saving step.  Each legend costs at most H *)
(* entry-scan candles, at most H simulation candles and at most M          *)
(* promotions, so the number of steps left, counted by C31_StepsLeft,      *)
(* strictly decreases with every step.                                     *)
(***************************************************************************)
\* steps one index can cost from each position, scan being the most
C31_ScanCost == 3 * (MaxLookForwardCandles + 2) + maxTriggerLevels + 3

C31_Within ==
  CASE pc = "scan"  -> C31_ScanCost
    [] pc = "cross" -> (MaxLookForwardCandles + 1 - look)
                         + 2 * (MaxLookForwardCandles + 2) + maxTriggerLevels + 2
    [] pc = "stop"  -> 2 * (MaxLookForwardCandles + 1 - look) + 1
                         + (maxTriggerLevels + 1 - currentTriggerIndex)
    [] pc = "trail" -> 2 * (MaxLookForwardCandles + 1 - look)
                         + (maxTriggerLevels + 1 - currentTriggerIndex)
    [] OTHER        -> 0

C31_StepsLeft ==
  IF pc = "done" THEN 0
  ELSE (IF currentIndex < NumCandles THEN NumCandles - currentIndex ELSE 0)
         * (C31_ScanCost + 1) + C31_Within

C31_Cost ==
  /\ pc = "cross" => look \in 1 .. (MaxLookForwardCandles + 1)
  /\ pc = "stop"  => look \in 1 .. (MaxLookForwardCandles + 1)
  /\ pc = "trail" => look \in 1 .. MaxLookForwardCandles
  /\ pc \in {"stop", "trail"} =>
       Len(trailingHistory) - 1 \in 0 .. maxTriggerLevels
  /\ C31_StepsLeft >= 0

C31_Terminates ==
  /\ <>(pc = "done")
  /\ []C31_Cost
  /\ [][C31_StepsLeft' < C31_StepsLeft]_vars

\* a run has ended after a trade that used every configured promotion and
\* more than one simulation candle
C31_Witness ==
  /\ pc = "done"
  /\ maxTriggerLevels >= 1
  /\ \E k \in 1 .. Len(matchingCandles) :
       /\ Len(matchingCandles[k].trade_result.trails) = maxTriggerLevels
       /\ matchingCandles[k].exit.candles_until_exit >= 2

(***************************************************************************)
(* C33: batch phase ordering.  In processAll no backtest task starts       *)
(* before every download task of every pair has completed successfully,    *)
(* and the summary report is generated only after every backtest task has  *)
(* completed successfully.                                                 *)
(***************************************************************************)
C33_StartOfBacktest(p) == backtestTask[p] = "idle" /\ backtestTask'[p] # "idle"

C33_PhaseOrdering ==
  /\ [][\A p \in Pairs :
          C33_StartOfBacktest(p) => \A q \in Pairs : downloadTask[q] = "fulfilled"]_vars
  /\ [][batchPc' = "summary" => \A q \in Pairs : backtestTask'[q] = "fulfilled"]_vars
  /\ [](batchPc \in {"backtest", "summary"} =>
          \A q \in Pairs : downloadTask[q] = "fulfilled")

\* the summary is reached with every pair backtested, in sequential mode
C33_Witness ==
  /\ batchPc = "summary"
  /\ ~useParallel
  /\ completedBacktests = Pairs

(***************************************************************************)
(* C34: batch failure stops the batch.  If any download or backtest task   *)
(* rejects, processAll rejects, no task of a later batch (parallel mode)   *)
(* or later pair (sequential mode) is started and processAll does not      *)
(* generate the summary report; a pair is added to completedBacktests only *)
(* after its results file is seen to exist.                                *)
(***************************************************************************)
C34_Rejected ==
  \E p \in Pairs : downloadTask[p] = "rejected" \/ backtestTask[p] = "rejected"

C34_FailureStopsBatch ==
  /\ [][C34_Rejected =>
          /\ \A q \in Pairs : downloadTask[q] = "idle" => downloadTask'[q] = "idle"
          /\ \A q \in Pairs : backtestTask[q] = "idle" => backtestTask'[q] = "idle"
          /\ batchPc' # "summary"]_vars
  /\ [](C34_Rejected => batchPc # "summary")
  /\ [][\A p \in completedBacktests' \ completedBacktests : p \in files']_vars
  /\ [](completedBacktests \subseteq files)
  /\ (C34_Rejected ~> (batchPc = "failed"))

\* a backtest of the first batch was rejected after another one completed,
\* and the pairs of the later batch were never started
C34_Witness ==
  /\ batchPc = "failed"
  /\ completedBacktests # {}
  /\ queue # << >>
  /\ \E q \in Pairs : backtestTask[q] = "idle"

(***************************************************************************)
(* C38: the batch queue always drains.  In parallel mode, for every        *)
(* configured concurrencyLimit value, each iteration of the download and   *)
(* backtest loops removes at least one task from the queue.                *)
(***************************************************************************)
C38_Iteration == useParallel /\ ~awaiting /\ awaiting'

C38_QueueDrains == [][C38_Iteration => Len(queue') < Len(queue)]_vars

(***************************************************************************)
(* C35: no lost update of the data-availability file.  When downloads for  *)
(* two timeframes of the same symbol run in parallel and both complete     *)
(* updateDataAvailability, <symbol>_data.json lists both timeframes as     *)
(* downloaded, under every interleaving of their read and write steps.     *)
(***************************************************************************)
C35_Completed(t) == fetchPc[t] = "resolved" /\ dataInfo[t] # None

C35_NoLostUpdate ==
  (\A t \in FetchTimeframes : C35_Completed(t)) =>
    /\ dataFile \notin {None, EmptyContent, NotJson}
    /\ \A t \in FetchTimeframes :
         /\ t \in DOMAIN dataFile.timeframes
         /\ dataFile.timeframes[t].downloaded

(***************************************************************************)
(* C36: checksum gate on extraction.  As stated: a monthly zip is          *)
(* extracted and counted toward firstAvailable/lastAvailable if and only   *)
(* if its download succeeded and either no checksum could be obtained or   *)
(* the file's SHA-256 equals the obtained checksum; a zip whose checksum   *)
(* mismatches is never extracted.                                          *)
(***************************************************************************)
\* the loop is back at its head after the month FileName(t)
C36_MonthDone(t) == fetchPc[t] = "loop" /\ fileIndex[t] >= 1
C36_Downloaded(t) == zipFile[t] # None
C36_Extracted(t) == FileName(t) \in csvFiles[t]
C36_Counted(t) == firstAvailable[t] # None /\ lastAvailable[t] = FileName(t)
C36_Mismatch(t) ==
  C36_Downloaded(t) /\ checksum[t] # "" /\ zipFile[t].digest # checksum[t]

C36_ChecksumGate ==
  \A t \in FetchTimeframes :
    C36_MonthDone(t) =>
      /\ (C36_Extracted(t) /\ C36_Counted(t))
           <=> (C36_Downloaded(t)
                  /\ (checksum[t] = "" \/ zipFile[t].digest = checksum[t]))
      /\ C36_Mismatch(t) => ~C36_Extracted(t)

(***************************************************************************)
(* C36, amended: unzipFile is called for a monthly zip if and only if its  *)
(* download succeeded and either no checksum could be obtained or the file *)
(* could be read and its SHA-256 equals the obtained checksum; the month   *)
(* is counted toward firstAvailable/lastAvailable if and only if unzipFile *)
(* then succeeded, and has files in the csv directory only if unzipFile    *)
(* got as far as extracting; a zip whose checksum mismatches is never      *)
(* extracted.                                                              *)
(***************************************************************************)
C36_Passed(t) ==
  /\ C36_Downloaded(t)
  /\ (checksum[t] = "" \/ (zipFile[t].readable /\ zipFile[t].digest = checksum[t]))

C36_GateThenExtraction ==
  \A t \in FetchTimeframes :
    C36_MonthDone(t) =>
      /\ unzipped[t] # "no" <=> C36_Passed(t)
      /\ C36_Counted(t) <=> unzipped[t] = "ok"
      /\ C36_Extracted(t) <=> unzipped[t] \in {"ok", "unverified"}
      /\ C36_Mismatch(t) => (unzipped[t] = "no" /\ ~C36_Extracted(t))

\* a zip passed the checksum comparison and was extracted, but the
\* extracted files were not verified: the month is not counted
C36_Witness ==
  \E t \in FetchTimeframes :
    /\ C36_MonthDone(t)
    /\ C36_Downloaded(t)
    /\ checksum[t] = zipFile[t].digest
    /\ unzipped[t] = "unverified"
    /\ C36_Extracted(t)
    /\ ~C36_Counted(t)

(***************************************************************************)
(* C37: a failing month does not stop the download.  Once                  *)
(* fetchHistoricalData has entered its per-month loop, a failure on one    *)
(* month (404, other download error, checksum mismatch, extraction         *)
(* failure) leaves the months processed earlier unaffected, every later    *)
(* month in the configured range is still attempted in calendar order, and *)
(* fetchHistoricalData resolves instead of rejecting.                      *)
(***************************************************************************)
\* the file names are consecutive months, in ascending order
C37_CalendarOrder ==
  \A i \in 1 .. (Len(getMonthlyFileNames) - 1) :
    LET a == getMonthlyFileNames[i]
        b == getMonthlyFileNames[i + 1]
    IN  /\ Earlier(a, b)
        /\ b.year * 12 + b.month = a.year * 12 + a.month + 1

C37_Running == { t \in FetchTimeframes : fetchPc[t] # "absent" }

C37_FailingMonthGoesOn ==
  /\ C37_CalendarOrder
  /\ [](\A t \in C37_Running :
          /\ fetchPc[t] # "rejected"
          /\ attempted[t] = SubSeq(getMonthlyFileNames, 1, Len(attempted[t]))
          /\ fetchPc[t] = "loop" => Len(attempted[t]) = fileIndex[t]
          /\ fetchPc[t] = "resolved" => attempted[t] = getMonthlyFileNames)
  /\ [][\A t \in C37_Running :
          /\ csvFiles[t] \subseteq csvFiles'[t]
          /\ firstAvailable[t] # None => firstAvailable'[t] = firstAvailable[t]
          /\ lastAvailable[t] # None => lastAvailable'[t] # None]_vars
  /\ <>(\A t \in C37_Running : fetchPc[t] = "resolved")

\* the first month failed, the last month was extracted and counted, and
\* fetchHistoricalData has resolved after writing the availability file
C37_Witness ==
  \E t \in C37_Running :
    /\ fetchPc[t] = "resolved"
    /\ getMonthlyFileNames[1] \notin csvFiles[t]
    /\ getMonthlyFileNames[Len(getMonthlyFileNames)] \in csvFiles[t]
    /\ firstAvailable[t] = getMonthlyFileNames[Len(getMonthlyFileNames)]
    /\ dataFile = dataInfo[t]

(***************************************************************************)
(* C32: the two Backtester variants compute different trigger ladders.     *)
(* There are entry prices, sides and thresholds for which the legacy       *)
(* variant's levels (trigger_j = entry*(1 +/- t*j/100),                     *)
(* stop_j = entry*(1 +/- t*(j-1)/100), j = 1..20) differ from the current   *)
(* variant's fixed-delta levels 1..20 (trigger_j = entry +/- j*delta,       *)
(* stop_j = trigger_j -/+ delta).                                           *)
(***************************************************************************)
C32_Differ(legacy, current) ==
  \E j \in 1 .. LegacyLevels : legacy[j] # current[j]

=============================================================================
